---- MODULE Spec2Model ----
(***************************************************************************)
(* ROI-Align operator of chainer (chainer/functions/pooling/               *)
(* roi_align_2d.py): construction, the sequential forward and backward     *)
(* passes (forward_cpu / backward_cpu) and the per-output-cell kernels     *)
(* (forward_gpu / backward_gpu).                                           *)
(*                                                                         *)
(* Floating-point numbers are modelled by exact rationals <<num, den>>     *)
(* (den > 0, lowest terms); the result of a division by zero is NaN.       *)
(* Arrays are functions over 0-based index tuples.                         *)
(***************************************************************************)
EXTENDS Integers, Sequences, FiniteSets, TLC

(* ------------------------------ bounds -------------------------------- *)
\* output height / width arguments range over -1..MaxOut
MaxOut == 2
\* sampling-ratio arguments range over -1..MaxRatio
MaxRatio == 1
\* feature maps have 1..MaxChannels channels
MaxChannels == 2
\* feature maps have 1..MaxHeight rows and 1..MaxWidth columns
MaxHeight == 2
MaxWidth == 2
\* ROI coordinates reach from -MaxNeg to MaxCoord
MaxNeg == 2
MaxCoord == 3
\* a kernel is launched with at most MaxTasks tasks
MaxTasks == 2

(* ------------------------- exact arithmetic --------------------------- *)
Abs(a) == IF a < 0 THEN -a ELSE a

RECURSIVE GCD(_, _)
GCD(a, b) == IF b = 0 THEN a ELSE GCD(b, a % b)

\* the rational n/d (d # 0) in lowest terms with a positive denominator
Norm(n, d) ==
    LET g == GCD(Abs(n), Abs(d))
        s == IF d < 0 THEN -1 ELSE 1
    IN  <<(s * n) \div g, (s * d) \div g>>

\* int -> float
R(k) == <<k, 1>>
Zero == <<0, 1>>
One == <<1, 1>>
Half == <<1, 2>>
\* what a float division by 0.0 leaves behind
NaN == <<0, 0>>
IsNaN(a) == a[2] = 0

RAdd(a, b) == Norm(a[1] * b[2] + b[1] * a[2], a[2] * b[2])
RSub(a, b) == Norm(a[1] * b[2] - b[1] * a[2], a[2] * b[2])
RMul(a, b) == Norm(a[1] * b[1], a[2] * b[2])
RDiv(a, b) == IF b[1] = 0 \/ IsNaN(b) \/ IsNaN(a) THEN NaN ELSE Norm(a[1] * b[2], a[2] * b[1])
RLt(a, b) == a[1] * b[2] < b[1] * a[2]
RLe(a, b) == a[1] * b[2] <= b[1] * a[2]
RMax(a, b) == IF RLt(a, b) THEN b ELSE a
\* int(x): truncation towards zero
Trunc(a) == IF a[1] >= 0 THEN a[1] \div a[2] ELSE -((-a[1]) \div a[2])
\* numpy.ceil / ceil
Ceil(a) == -((-a[1]) \div a[2])

(* ------------------------------- state -------------------------------- *)
VARIABLES
    pc,            \* position of the caller / of the running call
    args,          \* the arguments __init__ was called with
    self,          \* the operator's attributes: outh, outw, spatial_scale,
                   \* sampling_ratio, _bottom_data_shape
    bottom_data,   \* inputs[0]: the feature map
    bottom_rois,   \* inputs[1]: the ROI list (retained for backward)
    top_data,      \* the Output Map being filled (cells stored so far)
    top_diff,      \* gy[0]: the output gradient handed to backward
    bottom_diff,   \* the Gradient Map being accumulated
    i, iy, ix,     \* loop counters of the running call
    y,             \* the local y of the sampling loops
    output_val,    \* the local accumulator of forward
    tasks,         \* the loop state of each task of a running kernel
    in_types,      \* the input types last handed to check_type_forward
    calls,         \* how many times forward has been entered on the operator
    base,          \* a base dataset: its length and its keys
    sub_dataset,   \* the SubDataset made from base: _index and keys
    asked,         \* the outcome of the last call on sub_dataset
    retained,      \* per forward call entered on the operator, what its
                   \* backward is handed: the ROI list (inputs[1]) and the
                   \* shape of the output gradient; and the shape of its
                   \* feature map
    matching       \* the forward call (index into retained) of the last
                   \* backward call; 0 before any

vars == <<pc, args, self, bottom_data, bottom_rois, top_data, top_diff,
          bottom_diff, i, iy, ix, y, output_val, tasks, in_types, calls,
          base, sub_dataset, asked, retained, matching>>

(* --------------------------- construction ----------------------------- *)
\* a Python argument: its type and its value
PyInt(k) == [t |-> "int", v |-> R(k)]
PyFloat(r) == [t |-> "float", v |-> r]
\* a sampling_ratio argument: a scalar, or an iterable of values
Scalar(a) == [iter |-> FALSE, items |-> <<a>>]
Iter(a, b) == [iter |-> TRUE, items |-> <<a, b>>]

isinstance(a, t) == a.t = t

_pair(x) == IF x.iter THEN x.items ELSE <<x.items[1], x.items[1]>>

\* the attributes of an object whose __init__ raised: none is set
Unset ==
    [outh |-> 0, outw |-> 0, spatial_scale |-> Zero, sampling_ratio |-> <<0, 0>>,
     _bottom_data_shape |-> <<>>]

\* TRUE iff __init__ raises TypeError on these arguments
InitRaises(a) ==
    \/ \E value \in {a.outh, a.outw} :
           ~(isinstance(value, "int") /\ RLt(Zero, value.v))
    \/ /\ ~isinstance(a.spatial_scale, "int")
       /\ ~(isinstance(a.spatial_scale, "float") /\ RLt(Zero, a.spatial_scale.v))
    \/ LET sampling_ratio == _pair(a.sampling_ratio)
       IN  ~(\A k \in 1..Len(sampling_ratio) :
                 isinstance(sampling_ratio[k], "int")
                 /\ RLe(Zero, sampling_ratio[k].v))

\* the attributes __init__ sets when it does not raise
InitAttrs(a) ==
    LET sampling_ratio == _pair(a.sampling_ratio)
    IN  [outh |-> Trunc(a.outh.v), outw |-> Trunc(a.outw.v),
         spatial_scale |-> a.spatial_scale.v,
         sampling_ratio |-> <<Trunc(sampling_ratio[1].v), Trunc(sampling_ratio[2].v)>>,
         _bottom_data_shape |-> <<>>]

\* ROIAlign2D(outh, outw, spatial_scale, sampling_ratio) on arguments from Args
ROIAlign2D_init(Args) ==
    /\ pc = "new"
    /\ \E a \in Args :
        /\ args' = a
        /\ IF InitRaises(a)
           THEN pc' = "raised" /\ self' = Unset
           ELSE pc' = "ready" /\ self' = InitAttrs(a)
    /\ UNCHANGED <<retained, matching, base, sub_dataset, asked, in_types, calls, tasks, bottom_data, bottom_rois, top_data, top_diff, bottom_diff,
                   i, iy, ix, y, output_val>>

(* ------------------------------ arrays -------------------------------- *)
\* the index tuples of an array of the given 4-d shape
Indices(shape) ==
    (0..(shape[1] - 1)) \X (0..(shape[2] - 1)) \X (0..(shape[3] - 1)) \X (0..(shape[4] - 1))

\* ndarray.size
Size(shape) == shape[1] * shape[2] * shape[3] * shape[4]

\* numpy.empty(shape): an array none of whose cells holds a value yet
empty(shape) == [shape |-> shape, data |-> [idx \in {} |-> Zero]]

\* numpy.zeros(shape)
zeros(shape) == [shape |-> shape, data |-> [idx \in Indices(shape) |-> Zero]]

\* a[idx] = v
Store(a, idx, v) == [a EXCEPT !.data = (idx :> v) @@ a.data]

(* ---------------------------- forward_cpu ----------------------------- *)
\* variant: the extent without the clamp to 1
forward_cpu_roi_size_raw(roi_start, roi_end) == RSub(roi_end, roi_start)
\* max(roi_end - roi_start, 1.) of forward_cpu: malformed ROIs are forced to size 1
forward_cpu_roi_size(roi_start, roi_end) == RMax(RSub(roi_end, roi_start), One)

\* variant: ph, not pw, varies fastest with the flat index
forward_cpu_locals_ph_fastest(S, rois, channels, idx) ==
    LET pooled_width == S.outw
        pooled_height == S.outh
        spatial_scale == S.spatial_scale
        ph == idx % pooled_height
        pw == Trunc(RDiv(R(idx), R(pooled_height))) % pooled_width
        c == Trunc(RDiv(RDiv(R(idx), R(pooled_width)), R(pooled_height))) % channels
        n == Trunc(RDiv(RDiv(RDiv(R(idx), R(pooled_width)), R(pooled_height)),
                        R(channels)))
        roi_start_w == RMul(rois[n][1], spatial_scale)
        roi_start_h == RMul(rois[n][2], spatial_scale)
        roi_end_w == RMul(rois[n][3], spatial_scale)
        roi_end_h == RMul(rois[n][4], spatial_scale)
        roi_width == forward_cpu_roi_size(roi_start_w, roi_end_w)
        roi_height == forward_cpu_roi_size(roi_start_h, roi_end_h)
        roi_bin_grid_h ==
            IF S.sampling_ratio[1] > 0 THEN S.sampling_ratio[1]
            ELSE Ceil(RDiv(roi_height, R(pooled_height)))
        roi_bin_grid_w ==
            IF S.sampling_ratio[2] > 0 THEN S.sampling_ratio[2]
            ELSE Ceil(RDiv(roi_width, R(pooled_width)))
    IN  [pw |-> pw, ph |-> ph, c |-> c, n |-> n,
         roi_batch_ind |-> Trunc(rois[n][0]),
         roi_start_w |-> roi_start_w, roi_start_h |-> roi_start_h,
         roi_width |-> roi_width, roi_height |-> roi_height,
         bin_size_h |-> RDiv(roi_height, R(pooled_height)),
         bin_size_w |-> RDiv(roi_width, R(pooled_width)),
         roi_bin_grid_h |-> roi_bin_grid_h,
         roi_bin_grid_w |-> roi_bin_grid_w,
         count |-> R(roi_bin_grid_h * roi_bin_grid_w)]
\* the per-cell locals of forward_cpu for flat index idx: the index mapping and the
\* region geometry (lines 90-115)
forward_cpu_locals(S, rois, channels, idx) ==
    LET pooled_width == S.outw
        pooled_height == S.outh
        spatial_scale == S.spatial_scale
        pw == idx % pooled_width
        ph == Trunc(RDiv(R(idx), R(pooled_width))) % pooled_height
        c == Trunc(RDiv(RDiv(R(idx), R(pooled_width)), R(pooled_height))) % channels
        n == Trunc(RDiv(RDiv(RDiv(R(idx), R(pooled_width)), R(pooled_height)),
                        R(channels)))
        roi_start_w == RMul(rois[n][1], spatial_scale)
        roi_start_h == RMul(rois[n][2], spatial_scale)
        roi_end_w == RMul(rois[n][3], spatial_scale)
        roi_end_h == RMul(rois[n][4], spatial_scale)
        roi_width == forward_cpu_roi_size(roi_start_w, roi_end_w)
        roi_height == forward_cpu_roi_size(roi_start_h, roi_end_h)
        roi_bin_grid_h ==
            IF S.sampling_ratio[1] > 0 THEN S.sampling_ratio[1]
            ELSE Ceil(RDiv(roi_height, R(pooled_height)))
        roi_bin_grid_w ==
            IF S.sampling_ratio[2] > 0 THEN S.sampling_ratio[2]
            ELSE Ceil(RDiv(roi_width, R(pooled_width)))
    IN  [pw |-> pw, ph |-> ph, c |-> c, n |-> n,
         roi_batch_ind |-> Trunc(rois[n][0]),
         roi_start_w |-> roi_start_w, roi_start_h |-> roi_start_h,
         roi_width |-> roi_width, roi_height |-> roi_height,
         bin_size_h |-> RDiv(roi_height, R(pooled_height)),
         bin_size_w |-> RDiv(roi_width, R(pooled_width)),
         roi_bin_grid_h |-> roi_bin_grid_h,
         roi_bin_grid_w |-> roi_bin_grid_w,
         count |-> R(roi_bin_grid_h * roi_bin_grid_w)]

\* variant: the sample at the upper end of its grid cell, not at its centre
forward_cpu_y_corner(L, iy0) ==
    RAdd(RAdd(L.roi_start_h, RMul(R(L.ph), L.bin_size_h)),
         RDiv(RMul(R(iy0), L.bin_size_h), R(L.roi_bin_grid_h)))
\* y at the top of an iy iteration of forward_cpu
forward_cpu_y(L, iy0) ==
    RAdd(RAdd(L.roi_start_h, RMul(R(L.ph), L.bin_size_h)),
         RDiv(RMul(RAdd(R(iy0), Half), L.bin_size_h), R(L.roi_bin_grid_h)))

\* x at the top of an ix iteration of forward_cpu
forward_cpu_x(L, ix0) ==
    RAdd(RAdd(L.roi_start_w, RMul(R(L.pw), L.bin_size_w)),
         RDiv(RMul(RAdd(R(ix0), Half), L.bin_size_w), R(L.roi_bin_grid_w)))

\* variant: the upper edges y = height and x = width count as outside
forward_cpu_outside_closed(y0, x0, height, width) ==
    RLt(y0, R(-1)) \/ RLe(R(height), y0) \/ RLt(x0, R(-1)) \/ RLe(R(width), x0)
\* the test that guards the "continue" of forward_cpu
forward_cpu_outside(y0, x0, height, width) ==
    RLt(y0, R(-1)) \/ RLt(R(height), y0) \/ RLt(x0, R(-1)) \/ RLt(R(width), x0)

\* variant: y and x are not pinned to the last row / column
forward_cpu_interp_unpinned(y0, x0, height, width) ==
    LET y1 == IF RLe(y0, Zero) THEN Zero ELSE y0
        x1 == IF RLe(x0, Zero) THEN Zero ELSE x0
        yl == Trunc(y1)
        xl == Trunc(x1)
        y_low == IF yl >= height - 1 THEN height - 1 ELSE yl
        y_high == IF yl >= height - 1 THEN height - 1 ELSE yl + 1
        y2 == y1
        x_low == IF xl >= width - 1 THEN width - 1 ELSE xl
        x_high == IF xl >= width - 1 THEN width - 1 ELSE xl + 1
        x2 == x1
        ly == RSub(y2, R(y_low))
        lx == RSub(x2, R(x_low))
        hy == RSub(One, ly)
        hx == RSub(One, lx)
    IN  [y |-> y2, y_low |-> y_low, y_high |-> y_high,
         x_low |-> x_low, x_high |-> x_high,
         w1 |-> RMul(hy, hx), w2 |-> RMul(hy, lx),
         w3 |-> RMul(ly, hx), w4 |-> RMul(ly, lx)]
\* the bilinear interpolation block of forward_cpu for a sample that is not skipped:
\* the clamped y, the neighbour indices and the weights
forward_cpu_interp(y0, x0, height, width) ==
    LET y1 == IF RLe(y0, Zero) THEN Zero ELSE y0
        x1 == IF RLe(x0, Zero) THEN Zero ELSE x0
        yl == Trunc(y1)
        xl == Trunc(x1)
        y_low == IF yl >= height - 1 THEN height - 1 ELSE yl
        y_high == IF yl >= height - 1 THEN height - 1 ELSE yl + 1
        y2 == IF yl >= height - 1 THEN R(y_low) ELSE y1
        x_low == IF xl >= width - 1 THEN width - 1 ELSE xl
        x_high == IF xl >= width - 1 THEN width - 1 ELSE xl + 1
        x2 == IF xl >= width - 1 THEN R(x_low) ELSE x1
        ly == RSub(y2, R(y_low))
        lx == RSub(x2, R(x_low))
        hy == RSub(One, ly)
        hx == RSub(One, lx)
    IN  [y |-> y2, y_low |-> y_low, y_high |-> y_high,
         x_low |-> x_low, x_high |-> x_high,
         w1 |-> RMul(hy, hx), w2 |-> RMul(hy, lx),
         w3 |-> RMul(ly, hx), w4 |-> RMul(ly, lx)]

\* w1 * v1 + w2 * v2 + w3 * v3 + w4 * v4 of forward_cpu
forward_cpu_value(a, b, c, s) ==
    RAdd(RAdd(RAdd(RMul(s.w1, a.data[<<b, c, s.y_low, s.x_low>>]),
                   RMul(s.w2, a.data[<<b, c, s.y_low, s.x_high>>])),
              RMul(s.w3, a.data[<<b, c, s.y_high, s.x_low>>])),
         RMul(s.w4, a.data[<<b, c, s.y_high, s.x_high>>]))

\* The loops of forward_cpu for one cell, as steps on the loop state
\* ls = [pc, iy, ix, y, output_val].
\* At the test of "while iy < roi_bin_grid_h": enter the row, or leave the loop
forward_cpu_row_step(L, ls) ==
    IF ls.iy < L.roi_bin_grid_h
    THEN [ls EXCEPT !.pc = "ix", !.y = forward_cpu_y(L, ls.iy), !.ix = 0]
    ELSE [ls EXCEPT !.pc = "end"]

\* At the test of "while ix < roi_bin_grid_w": one sample point, or the end of
\* the row (iy += 1)
forward_cpu_sample_step(a, L, ls) ==
    LET x == forward_cpu_x(L, ls.ix)
        s == forward_cpu_interp(ls.y, x, a.shape[3], a.shape[4])
    IN  IF ls.ix < L.roi_bin_grid_w
        THEN IF forward_cpu_outside(ls.y, x, a.shape[3], a.shape[4])
             THEN ls   \* continue: back to the test, ix as it was
             ELSE [ls EXCEPT !.y = s.y,
                             !.output_val = RAdd(@, forward_cpu_value(a, L.roi_batch_ind, L.c, s)),
                             !.ix = @ + 1]
        ELSE [ls EXCEPT !.pc = "iy", !.iy = @ + 1]

\* variant: the two output sizes exchanged
top_shape_exchanged(S, a, rois) ==
    <<Cardinality(DOMAIN rois), a.shape[2], S.outw, S.outh>>
\* the shape of the Output Map forward allocates
top_shape(S, a, rois) ==
    <<Cardinality(DOMAIN rois), a.shape[2], S.outh, S.outw>>

\* what a forward call on (a, rois) leaves for its backward: the framework
\* hands backward the call's inputs, of which inputs[1] is retained (line 77),
\* and an output gradient of the shape of the call's Output Map
Retain(S, a, rois) ==
    [shape |-> a.shape, bottom_rois |-> rois, top_shape |-> top_shape(S, a, rois)]

\* the loop state of the running call
loop == [pc |-> pc, iy |-> iy, ix |-> ix, y |-> y, output_val |-> output_val]

\* forward_cpu is called on inputs from Inputs: lines 77-87
forward_cpu_begin(Inputs) ==
    /\ pc = "ready"
    /\ \E in \in Inputs :
        /\ bottom_data' = in[1]
        /\ bottom_rois' = in[2]
        /\ self' = [self EXCEPT !._bottom_data_shape = in[1].shape]
        /\ top_data' = empty(top_shape(self, in[1], in[2]))
        /\ retained' = Append(retained, Retain(self, in[1], in[2]))
    /\ i' = 0
    /\ pc' = "fwd_i"
    /\ calls' = calls + 1
    /\ UNCHANGED <<matching, base, sub_dataset, asked, in_types, tasks, args, top_diff, bottom_diff, iy, ix, y, output_val>>

\* top of "for i in range(top_data.size)": the next cell, or the return
forward_cpu_cell ==
    /\ pc = "fwd_i"
    /\ IF i < Size(top_data.shape)
       THEN /\ output_val' = Zero
            /\ iy' = 0
            /\ pc' = "fwd_iy"
       ELSE /\ pc' = "fwd_done"
            /\ UNCHANGED <<output_val, iy>>
    /\ UNCHANGED <<retained, matching, base, sub_dataset, asked, in_types, calls, tasks, args, self, bottom_data, bottom_rois, top_data, top_diff,
                   bottom_diff, i, ix, y>>

\* the test of "while iy < roi_bin_grid_h": the next row of samples, or the
\* division by count and the store into top_data (lines 174-175)
forward_cpu_row ==
    /\ pc = "fwd_iy"
    /\ \E L \in {forward_cpu_locals(self, bottom_rois, bottom_data.shape[2], i)} :
       \E n \in {forward_cpu_row_step(L, [loop EXCEPT !.pc = "iy"])} :
           IF n.pc = "end"
           THEN /\ output_val' = RDiv(output_val, L.count)
                /\ top_data' = Store(top_data, <<L.n, L.c, L.ph, L.pw>>, output_val')
                /\ i' = i + 1
                /\ pc' = "fwd_i"
                /\ UNCHANGED <<y, ix>>
           ELSE /\ y' = n.y
                /\ ix' = n.ix
                /\ pc' = "fwd_ix"
                /\ UNCHANGED <<top_data, i, output_val>>
    /\ UNCHANGED <<retained, matching, base, sub_dataset, asked, in_types, calls, tasks, args, self, bottom_data, bottom_rois, top_diff, bottom_diff, iy>>

\* the test of "while ix < roi_bin_grid_w": one sample point, or the end of
\* the row
forward_cpu_sample ==
    /\ pc = "fwd_ix"
    /\ \E L \in {forward_cpu_locals(self, bottom_rois, bottom_data.shape[2], i)} :
       \E n \in {forward_cpu_sample_step(bottom_data, L, [loop EXCEPT !.pc = "ix"])} :
           /\ pc' = IF n.pc = "iy" THEN "fwd_iy" ELSE "fwd_ix"
           /\ iy' = n.iy
           /\ ix' = n.ix
           /\ y' = n.y
           /\ output_val' = n.output_val
    /\ UNCHANGED <<retained, matching, base, sub_dataset, asked, in_types, calls, tasks, args, self, bottom_data, bottom_rois, top_data, top_diff,
                   bottom_diff, i>>

(* ---------------------------- backward_cpu ---------------------------- *)
\* max(roi_end - roi_start, 1.) of backward_cpu: malformed ROIs are forced to size 1
backward_cpu_roi_size(roi_start, roi_end) == RMax(RSub(roi_end, roi_start), One)

\* the per-cell locals of backward_cpu for flat index idx: the index mapping and the
\* region geometry (lines 321-348)
backward_cpu_locals(S, rois, channels, idx) ==
    LET pooled_width == S.outw
        pooled_height == S.outh
        spatial_scale == S.spatial_scale
        pw == idx % pooled_width
        ph == Trunc(RDiv(R(idx), R(pooled_width))) % pooled_height
        c == Trunc(RDiv(RDiv(R(idx), R(pooled_width)), R(pooled_height))) % channels
        n == Trunc(RDiv(RDiv(RDiv(R(idx), R(pooled_width)), R(pooled_height)),
                        R(channels)))
        roi_start_w == RMul(rois[n][1], spatial_scale)
        roi_start_h == RMul(rois[n][2], spatial_scale)
        roi_end_w == RMul(rois[n][3], spatial_scale)
        roi_end_h == RMul(rois[n][4], spatial_scale)
        roi_width == backward_cpu_roi_size(roi_start_w, roi_end_w)
        roi_height == backward_cpu_roi_size(roi_start_h, roi_end_h)
        roi_bin_grid_h ==
            IF S.sampling_ratio[1] > 0 THEN S.sampling_ratio[1]
            ELSE Ceil(RDiv(roi_height, R(pooled_height)))
        roi_bin_grid_w ==
            IF S.sampling_ratio[2] > 0 THEN S.sampling_ratio[2]
            ELSE Ceil(RDiv(roi_width, R(pooled_width)))
    IN  [pw |-> pw, ph |-> ph, c |-> c, n |-> n,
         roi_batch_ind |-> Trunc(rois[n][0]),
         roi_start_w |-> roi_start_w, roi_start_h |-> roi_start_h,
         roi_width |-> roi_width, roi_height |-> roi_height,
         bin_size_h |-> RDiv(roi_height, R(pooled_height)),
         bin_size_w |-> RDiv(roi_width, R(pooled_width)),
         roi_bin_grid_h |-> roi_bin_grid_h,
         roi_bin_grid_w |-> roi_bin_grid_w,
         count |-> R(roi_bin_grid_h * roi_bin_grid_w)]

\* y at the top of an iy iteration of backward_cpu
backward_cpu_y(L, iy0) ==
    RAdd(RAdd(L.roi_start_h, RMul(R(L.ph), L.bin_size_h)),
         RDiv(RMul(RAdd(R(iy0), Half), L.bin_size_h), R(L.roi_bin_grid_h)))

\* x at the top of an ix iteration of backward_cpu
backward_cpu_x(L, ix0) ==
    RAdd(RAdd(L.roi_start_w, RMul(R(L.pw), L.bin_size_w)),
         RDiv(RMul(RAdd(R(ix0), Half), L.bin_size_w), R(L.roi_bin_grid_w)))

\* the test that guards the "continue" of backward_cpu
backward_cpu_outside(y0, x0, height, width) ==
    RLt(y0, R(-1)) \/ RLt(R(height), y0) \/ RLt(x0, R(-1)) \/ RLt(R(width), x0)

\* variant: the indices are clamped only beyond the last row / column
backward_cpu_interp_late_clamp(y0, x0, height, width) ==
    LET y1 == IF RLe(y0, Zero) THEN Zero ELSE y0
        x1 == IF RLe(x0, Zero) THEN Zero ELSE x0
        yl == Trunc(y1)
        xl == Trunc(x1)
        y_low == IF yl > height - 1 THEN height - 1 ELSE yl
        y_high == IF yl > height - 1 THEN height - 1 ELSE yl + 1
        y2 == IF yl > height - 1 THEN R(y_low) ELSE y1
        x_low == IF xl > width - 1 THEN width - 1 ELSE xl
        x_high == IF xl > width - 1 THEN width - 1 ELSE xl + 1
        x2 == IF xl > width - 1 THEN R(x_low) ELSE x1
        ly == RSub(y2, R(y_low))
        lx == RSub(x2, R(x_low))
        hy == RSub(One, ly)
        hx == RSub(One, lx)
    IN  [y |-> y2, y_low |-> y_low, y_high |-> y_high,
         x_low |-> x_low, x_high |-> x_high,
         w1 |-> RMul(hy, hx), w2 |-> RMul(hy, lx),
         w3 |-> RMul(ly, hx), w4 |-> RMul(ly, lx)]
\* the bilinear interpolation block of backward_cpu for a sample that is not skipped:
\* the clamped y, the neighbour indices and the weights
backward_cpu_interp(y0, x0, height, width) ==
    LET y1 == IF RLe(y0, Zero) THEN Zero ELSE y0
        x1 == IF RLe(x0, Zero) THEN Zero ELSE x0
        yl == Trunc(y1)
        xl == Trunc(x1)
        y_low == IF yl >= height - 1 THEN height - 1 ELSE yl
        y_high == IF yl >= height - 1 THEN height - 1 ELSE yl + 1
        y2 == IF yl >= height - 1 THEN R(y_low) ELSE y1
        x_low == IF xl >= width - 1 THEN width - 1 ELSE xl
        x_high == IF xl >= width - 1 THEN width - 1 ELSE xl + 1
        x2 == IF xl >= width - 1 THEN R(x_low) ELSE x1
        ly == RSub(y2, R(y_low))
        lx == RSub(x2, R(x_low))
        hy == RSub(One, ly)
        hx == RSub(One, lx)
    IN  [y |-> y2, y_low |-> y_low, y_high |-> y_high,
         x_low |-> x_low, x_high |-> x_high,
         w1 |-> RMul(hy, hx), w2 |-> RMul(hy, lx),
         w3 |-> RMul(ly, hx), w4 |-> RMul(ly, lx)]

\* variant: a plain store in place of +=
Overwrite(a, idx, g) == [a EXCEPT !.data[idx] = g]
\* a[idx] += g
Accumulate(a, idx, g) == [a EXCEPT !.data[idx] = RAdd(@, g)]

\* variant: the weights of (y_low, x_high) and (y_high, x_low) exchanged
backward_cpu_scatter_swapped(diff, b, c, s, top_diff_this_bin, count) ==
    LET g1 == RDiv(RMul(top_diff_this_bin, s.w1), count)
        g2 == RDiv(RMul(top_diff_this_bin, s.w3), count)
        g3 == RDiv(RMul(top_diff_this_bin, s.w2), count)
        g4 == RDiv(RMul(top_diff_this_bin, s.w4), count)
        d1 == Accumulate(diff, <<b, c, s.y_low, s.x_low>>, g1)
        d2 == Accumulate(d1, <<b, c, s.y_low, s.x_high>>, g2)
        d3 == Accumulate(d2, <<b, c, s.y_high, s.x_low>>, g3)
        d4 == Accumulate(d3, <<b, c, s.y_high, s.x_high>>, g4)
    IN  IF s.x_low >= 0 /\ s.x_high >= 0 /\ s.y_low >= 0 /\ s.y_high >= 0
        THEN d4 ELSE diff
\* variant: the contributions are not divided by count
backward_cpu_scatter_undivided(diff, b, c, s, top_diff_this_bin, count) ==
    LET g1 == RMul(top_diff_this_bin, s.w1)
        g2 == RMul(top_diff_this_bin, s.w2)
        g3 == RMul(top_diff_this_bin, s.w3)
        g4 == RMul(top_diff_this_bin, s.w4)
        d1 == Accumulate(diff, <<b, c, s.y_low, s.x_low>>, g1)
        d2 == Accumulate(d1, <<b, c, s.y_low, s.x_high>>, g2)
        d3 == Accumulate(d2, <<b, c, s.y_high, s.x_low>>, g3)
        d4 == Accumulate(d3, <<b, c, s.y_high, s.x_high>>, g4)
    IN  IF s.x_low >= 0 /\ s.x_high >= 0 /\ s.y_low >= 0 /\ s.y_high >= 0
        THEN d4 ELSE diff
\* the four accumulations of backward_cpu for one sample (lines 395-405)
backward_cpu_scatter(diff, b, c, s, top_diff_this_bin, count) ==
    LET g1 == RDiv(RMul(top_diff_this_bin, s.w1), count)
        g2 == RDiv(RMul(top_diff_this_bin, s.w2), count)
        g3 == RDiv(RMul(top_diff_this_bin, s.w3), count)
        g4 == RDiv(RMul(top_diff_this_bin, s.w4), count)
        d1 == Accumulate(diff, <<b, c, s.y_low, s.x_low>>, g1)
        d2 == Accumulate(d1, <<b, c, s.y_low, s.x_high>>, g2)
        d3 == Accumulate(d2, <<b, c, s.y_high, s.x_low>>, g3)
        d4 == Accumulate(d3, <<b, c, s.y_high, s.x_high>>, g4)
    IN  IF s.x_low >= 0 /\ s.x_high >= 0 /\ s.y_low >= 0 /\ s.y_high >= 0
        THEN d4 ELSE diff

\* The loops of backward_cpu for one cell, as steps on the loop state
\* ls = [pc, iy, ix, y, bottom_diff].
\* At the test of "while iy < roi_bin_grid_h"
backward_cpu_row_step(L, ls) ==
    IF ls.iy < L.roi_bin_grid_h
    THEN [ls EXCEPT !.pc = "ix", !.y = backward_cpu_y(L, ls.iy), !.ix = 0]
    ELSE [ls EXCEPT !.pc = "end"]

\* At the test of "while ix < roi_bin_grid_w": one sample point, or the end of
\* the row (iy += 1)
backward_cpu_sample_step(gy, L, ls) ==
    LET height == ls.bottom_diff.shape[3]
        width == ls.bottom_diff.shape[4]
        x == backward_cpu_x(L, ls.ix)
        s == backward_cpu_interp(ls.y, x, height, width)
        top_diff_this_bin == gy.data[<<L.n, L.c, L.ph, L.pw>>]
    IN  IF ls.ix < L.roi_bin_grid_w
        THEN IF backward_cpu_outside(ls.y, x, height, width)
             THEN ls   \* continue: back to the test, ix as it was
             ELSE [ls EXCEPT !.y = s.y,
                             !.bottom_diff =
                                 backward_cpu_scatter(@, L.roi_batch_ind, L.c, s,
                                                      top_diff_this_bin, L.count),
                             !.ix = @ + 1]
        ELSE [ls EXCEPT !.pc = "iy", !.iy = @ + 1]

\* the loop state of the running backward call
bloop == [pc |-> pc, iy |-> iy, ix |-> ix, y |-> y, bottom_diff |-> bottom_diff]

\* backward_cpu is called for one of the forward calls made on the operator,
\* with that call's inputs and an output gradient of GYs that has the shape of
\* that call's Output Map: the ROI list is that call's (line 311), the shape
\* of the Gradient Map is self._bottom_data_shape (lines 312-313)
backward_cpu_begin(GYs) ==
    /\ pc = "fwd_done"
    /\ \E k \in DOMAIN retained :
       \E gy \in {g \in GYs : g.shape = retained[k].top_shape} :
           /\ top_diff' = gy
           /\ bottom_rois' = retained[k].bottom_rois
           /\ matching' = k
    /\ bottom_diff' = zeros(self._bottom_data_shape)
    /\ i' = 0
    /\ pc' = "bwd_i"
    /\ UNCHANGED <<retained, base, sub_dataset, asked, in_types, calls, tasks, args, self,
                   bottom_data, top_data, iy, ix, y, output_val>>

\* TRUE iff the cell of flat index idx makes backward_cpu raise IndexError:
\* bottom_rois[n, 0] (line 326) or top_diff[n, c, ph, pw] (line 337) is out
\* of range
backward_cpu_raises(S, rois, gy, idx) ==
    LET pw == idx % S.outw
        ph == Trunc(RDiv(R(idx), R(S.outw))) % S.outh
        c == Trunc(RDiv(RDiv(R(idx), R(S.outw)), R(S.outh))) % S._bottom_data_shape[2]
        n == Trunc(RDiv(RDiv(RDiv(R(idx), R(S.outw)), R(S.outh)),
                        R(S._bottom_data_shape[2])))
    IN  \/ n \notin DOMAIN rois
        \/ <<n, c, ph, pw>> \notin Indices(gy.shape)

\* top of "for i in range(top_diff.size)": the next cell, or the return
backward_cpu_cell ==
    /\ pc = "bwd_i"
    /\ IF i >= Size(top_diff.shape)
       THEN /\ pc' = "bwd_done"
            /\ UNCHANGED iy
       ELSE IF backward_cpu_raises(self, bottom_rois, top_diff, i)
       THEN /\ pc' = "IndexError"
            /\ UNCHANGED iy
       ELSE /\ iy' = 0
            /\ pc' = "bwd_iy"
    /\ UNCHANGED <<retained, matching, base, sub_dataset, asked, in_types, calls, tasks, args, self, bottom_data, bottom_rois, top_data, top_diff,
                   bottom_diff, i, ix, y, output_val>>

\* the test of "while iy < roi_bin_grid_h": the next row of samples, or the
\* next cell
backward_cpu_row ==
    /\ pc = "bwd_iy"
    /\ \E L \in {backward_cpu_locals(self, bottom_rois, self._bottom_data_shape[2], i)} :
       \E n \in {backward_cpu_row_step(L, [bloop EXCEPT !.pc = "iy"])} :
           IF n.pc = "end"
           THEN /\ i' = i + 1
                /\ pc' = "bwd_i"
                /\ UNCHANGED <<y, ix>>
           ELSE /\ y' = n.y
                /\ ix' = n.ix
                /\ pc' = "bwd_ix"
                /\ UNCHANGED i
    /\ UNCHANGED <<retained, matching, base, sub_dataset, asked, in_types, calls, tasks, args, self, bottom_data, bottom_rois, top_data, top_diff,
                   bottom_diff, iy, output_val>>

\* the test of "while ix < roi_bin_grid_w": one sample point, or the end of
\* the row
backward_cpu_sample ==
    /\ pc = "bwd_ix"
    /\ \E L \in {backward_cpu_locals(self, bottom_rois, self._bottom_data_shape[2], i)} :
       \E n \in {backward_cpu_sample_step(top_diff, L, [bloop EXCEPT !.pc = "ix"])} :
           /\ pc' = IF n.pc = "iy" THEN "bwd_iy" ELSE "bwd_ix"
           /\ iy' = n.iy
           /\ ix' = n.ix
           /\ y' = n.y
           /\ bottom_diff' = n.bottom_diff
    /\ UNCHANGED <<retained, matching, base, sub_dataset, asked, in_types, calls, tasks, args, self, bottom_data, bottom_rois, top_data, top_diff, i,
                   output_val>>

(* --------------------- whole calls, as functions ---------------------- *)
RECURSIVE forward_cpu_loops(_, _, _)
\* the sampling loops of forward_cpu for one cell run from loop state ls: the
\* loop state at the exit of the outer loop, or pc = "hang" when a step leads
\* back to the very same loop state
forward_cpu_loops(a, L, ls) ==
    IF ls.pc = "end" THEN ls
    ELSE LET n == IF ls.pc = "iy" THEN forward_cpu_row_step(L, ls)
                  ELSE forward_cpu_sample_step(a, L, ls)
         IN  IF n = ls THEN [ls EXCEPT !.pc = "hang"] ELSE forward_cpu_loops(a, L, n)

RECURSIVE forward_cpu_from(_, _, _, _, _)
\* "for i in range(top_data.size)" of forward_cpu from i = idx on
forward_cpu_from(S, a, rois, idx, top) ==
    IF idx >= Size(top.shape) THEN [returns |-> TRUE, top_data |-> top]
    ELSE LET L == forward_cpu_locals(S, rois, a.shape[2], idx)
             e == forward_cpu_loops(a, L, [pc |-> "iy", iy |-> 0, ix |-> 0, y |-> Zero,
                                           output_val |-> Zero])
         IN  IF e.pc = "hang" THEN [returns |-> FALSE, top_data |-> top]
             ELSE forward_cpu_from(S, a, rois, idx + 1,
                      Store(top, <<L.n, L.c, L.ph, L.pw>>, RDiv(e.output_val, L.count)))

\* forward_cpu((a, rois)): whether it returns, and the Output Map
forward_cpu(S, a, rois) == forward_cpu_from(S, a, rois, 0, empty(top_shape(S, a, rois)))

RECURSIVE backward_cpu_loops(_, _, _)
\* the sampling loops of backward_cpu for one cell run from loop state ls
backward_cpu_loops(gy, L, ls) ==
    IF ls.pc = "end" THEN ls
    ELSE LET n == IF ls.pc = "iy" THEN backward_cpu_row_step(L, ls)
                  ELSE backward_cpu_sample_step(gy, L, ls)
         IN  IF n = ls THEN [ls EXCEPT !.pc = "hang"] ELSE backward_cpu_loops(gy, L, n)

RECURSIVE backward_cpu_from(_, _, _, _, _)
\* "for i in range(top_diff.size)" of backward_cpu from i = idx on
backward_cpu_from(S, rois, gy, idx, diff) ==
    IF idx >= Size(gy.shape) THEN [returns |-> TRUE, bottom_diff |-> diff]
    ELSE LET L == backward_cpu_locals(S, rois, S._bottom_data_shape[2], idx)
             e == backward_cpu_loops(gy, L, [pc |-> "iy", iy |-> 0, ix |-> 0, y |-> Zero,
                                             bottom_diff |-> diff])
         IN  IF e.pc = "hang" THEN [returns |-> FALSE, bottom_diff |-> diff]
             ELSE backward_cpu_from(S, rois, gy, idx + 1, e.bottom_diff)

\* backward_cpu((_, rois), (gy,)) on an operator S that retains the shape of
\* the feature map: whether it returns, and the Gradient Map
backward_cpu(S, rois, gy) == backward_cpu_from(S, rois, gy, 0, zeros(S._bottom_data_shape))

(* ---------------------------- forward_gpu ----------------------------- *)
\* max(roi_end - roi_start, 1.) of forward_gpu: malformed ROIs are forced to size 1
forward_gpu_roi_size(roi_start, roi_end) == RMax(RSub(roi_end, roi_start), One)

\* the per-cell locals of forward_gpu for flat index idx: the index mapping and the
\* region geometry (kernel text)
forward_gpu_locals(S, rois, channels, idx) ==
    LET pooled_width == S.outw
        pooled_height == S.outh
        spatial_scale == S.spatial_scale
        pw == idx % pooled_width
        ph == (idx \div pooled_width) % pooled_height
        c == ((idx \div pooled_width) \div pooled_height) % channels
        n == ((idx \div pooled_width) \div pooled_height) \div channels
        roi_start_w == RMul(rois[n][1], spatial_scale)
        roi_start_h == RMul(rois[n][2], spatial_scale)
        roi_end_w == RMul(rois[n][3], spatial_scale)
        roi_end_h == RMul(rois[n][4], spatial_scale)
        roi_width == forward_gpu_roi_size(roi_start_w, roi_end_w)
        roi_height == forward_gpu_roi_size(roi_start_h, roi_end_h)
        roi_bin_grid_h ==
            IF S.sampling_ratio[1] > 0 THEN S.sampling_ratio[1]
            ELSE Ceil(RDiv(roi_height, R(pooled_height)))
        roi_bin_grid_w ==
            IF S.sampling_ratio[2] > 0 THEN S.sampling_ratio[2]
            ELSE Ceil(RDiv(roi_width, R(pooled_width)))
    IN  [pw |-> pw, ph |-> ph, c |-> c, n |-> n,
         roi_batch_ind |-> Trunc(rois[n][0]),
         roi_start_w |-> roi_start_w, roi_start_h |-> roi_start_h,
         roi_width |-> roi_width, roi_height |-> roi_height,
         bin_size_h |-> RDiv(roi_height, R(pooled_height)),
         bin_size_w |-> RDiv(roi_width, R(pooled_width)),
         roi_bin_grid_h |-> roi_bin_grid_h,
         roi_bin_grid_w |-> roi_bin_grid_w,
         count |-> R(roi_bin_grid_h * roi_bin_grid_w)]

\* y at the top of an iy iteration of forward_gpu
forward_gpu_y(L, iy0) ==
    RAdd(RAdd(L.roi_start_h, RMul(R(L.ph), L.bin_size_h)),
         RDiv(RMul(RAdd(R(iy0), Half), L.bin_size_h), R(L.roi_bin_grid_h)))

\* x at the top of an ix iteration of forward_gpu
forward_gpu_x(L, ix0) ==
    RAdd(RAdd(L.roi_start_w, RMul(R(L.pw), L.bin_size_w)),
         RDiv(RMul(RAdd(R(ix0), Half), L.bin_size_w), R(L.roi_bin_grid_w)))

\* the test that guards the "continue" of forward_gpu
forward_gpu_outside(y0, x0, height, width) ==
    RLt(y0, R(-1)) \/ RLt(R(height), y0) \/ RLt(x0, R(-1)) \/ RLt(R(width), x0)

\* the bilinear interpolation block of forward_gpu for a sample that is not skipped:
\* the clamped y, the neighbour indices and the weights
forward_gpu_interp(y0, x0, height, width) ==
    LET y1 == IF RLe(y0, Zero) THEN Zero ELSE y0
        x1 == IF RLe(x0, Zero) THEN Zero ELSE x0
        yl == Trunc(y1)
        xl == Trunc(x1)
        y_low == IF yl >= height - 1 THEN height - 1 ELSE yl
        y_high == IF yl >= height - 1 THEN height - 1 ELSE yl + 1
        y2 == IF yl >= height - 1 THEN R(y_low) ELSE y1
        x_low == IF xl >= width - 1 THEN width - 1 ELSE xl
        x_high == IF xl >= width - 1 THEN width - 1 ELSE xl + 1
        x2 == IF xl >= width - 1 THEN R(x_low) ELSE x1
        ly == RSub(y2, R(y_low))
        lx == RSub(x2, R(x_low))
        hy == RSub(One, ly)
        hx == RSub(One, lx)
    IN  [y |-> y2, y_low |-> y_low, y_high |-> y_high,
         x_low |-> x_low, x_high |-> x_high,
         w1 |-> RMul(hy, hx), w2 |-> RMul(hy, lx),
         w3 |-> RMul(ly, hx), w4 |-> RMul(ly, lx)]

\* w1 * v1 + w2 * v2 + w3 * v3 + w4 * v4 of forward_gpu
forward_gpu_value(a, b, c, s) ==
    RAdd(RAdd(RAdd(RMul(s.w1, a.data[<<b, c, s.y_low, s.x_low>>]),
                   RMul(s.w2, a.data[<<b, c, s.y_low, s.x_high>>])),
              RMul(s.w3, a.data[<<b, c, s.y_high, s.x_low>>])),
         RMul(s.w4, a.data[<<b, c, s.y_high, s.x_high>>]))

\* The loops of the forward kernel for one cell, as steps on the loop state
\* ls = [pc, iy, ix, y, output_val].
\* At the test of "for (iy...; iy < roi_bin_grid_h; ...)"
forward_gpu_row_step(L, ls) ==
    IF ls.iy < L.roi_bin_grid_h
    THEN [ls EXCEPT !.pc = "ix", !.y = forward_gpu_y(L, ls.iy), !.ix = 0]
    ELSE [ls EXCEPT !.pc = "end"]

\* At the test of "for (ix...; ix < roi_bin_grid_w; ix++)": one sample point
\* (a "continue" goes on to ix++), or the end of the row (iy++)
forward_gpu_sample_step(a, L, ls) ==
    LET x == forward_gpu_x(L, ls.ix)
        s == forward_gpu_interp(ls.y, x, a.shape[3], a.shape[4])
    IN  IF ls.ix < L.roi_bin_grid_w
        THEN IF forward_gpu_outside(ls.y, x, a.shape[3], a.shape[4])
             THEN [ls EXCEPT !.ix = @ + 1]
             ELSE [ls EXCEPT !.y = s.y,
                             !.output_val = RAdd(@, forward_gpu_value(a, L.roi_batch_ind, L.c, s)),
                             !.ix = @ + 1]
        ELSE [ls EXCEPT !.pc = "iy", !.iy = @ + 1]

\* the index tuple of the flat (row-major) position off of an array
Unflat(shape, off) ==
    <<off \div (shape[2] * shape[3] * shape[4]),
      (off \div (shape[3] * shape[4])) % shape[2],
      (off \div shape[4]) % shape[3],
      off % shape[4]>>

\* forward_gpu is called on inputs from Inputs: the Output Map is allocated
\* and one task per output cell is launched (lines 180-188, 304-306)
forward_gpu_begin(Inputs) ==
    /\ pc = "ready"
    /\ \E in \in Inputs :
        /\ bottom_data' = in[1]
        /\ bottom_rois' = in[2]
        /\ self' = [self EXCEPT !._bottom_data_shape = in[1].shape]
        /\ top_data' = empty(top_shape(self, in[1], in[2]))
        /\ retained' = Append(retained, Retain(self, in[1], in[2]))
    /\ tasks' = [t \in 0..(Size(top_data'.shape) - 1) |->
                    [pc |-> "iy", iy |-> 0, ix |-> 0, y |-> Zero, output_val |-> Zero,
                     adds |-> << >>]]
    /\ pc' = "gpu_fwd"
    /\ calls' = calls + 1
    /\ UNCHANGED <<matching, base, sub_dataset, asked, in_types, args, top_diff, bottom_diff, i, iy, ix, y, output_val>>

\* one step of the forward kernel's task t: a loop test with the body that
\* follows it, or the final "output_val /= count; top_data = output_val"
forward_gpu_task(t) ==
    /\ pc = "gpu_fwd"
    /\ tasks[t].pc \in {"iy", "ix"}
    /\ \E L \in {forward_gpu_locals(self, bottom_rois, bottom_data.shape[2], t)} :
       \E ls \in {tasks[t]} :
       \E n \in {IF ls.pc = "iy" THEN forward_gpu_row_step(L, ls)
                 ELSE forward_gpu_sample_step(bottom_data, L, ls)} :
           IF n.pc = "end"
           THEN /\ top_data' = Store(top_data, Unflat(top_data.shape, t),
                                     RDiv(ls.output_val, L.count))
                /\ tasks' = [tasks EXCEPT ![t] =
                                [n EXCEPT !.pc = "done",
                                          !.output_val = RDiv(ls.output_val, L.count)]]
           ELSE /\ tasks' = [tasks EXCEPT ![t] = n]
                /\ UNCHANGED top_data
    /\ UNCHANGED <<retained, matching, base, sub_dataset, asked, in_types, calls, pc, args, self, bottom_data, bottom_rois, top_diff, bottom_diff,
                   i, iy, ix, y, output_val>>

\* every task has finished: forward_gpu returns top_data
forward_gpu_return ==
    /\ pc = "gpu_fwd"
    /\ \A t \in DOMAIN tasks : tasks[t].pc = "done"
    /\ pc' = "gpu_fwd_done"
    /\ UNCHANGED <<retained, matching, base, sub_dataset, asked, in_types, calls, tasks, args, self, bottom_data, bottom_rois, top_data, top_diff,
                   bottom_diff, i, iy, ix, y, output_val>>

(* ---------------------------- backward_gpu ---------------------------- *)
\* max(roi_end - roi_start, 1.) of backward_gpu: malformed ROIs are forced to size 1
backward_gpu_roi_size(roi_start, roi_end) == RMax(RSub(roi_end, roi_start), One)

\* the per-cell locals of backward_gpu for flat index idx: the index mapping and the
\* region geometry (kernel text)
backward_gpu_locals(S, rois, channels, idx) ==
    LET pooled_width == S.outw
        pooled_height == S.outh
        spatial_scale == S.spatial_scale
        pw == idx % pooled_width
        ph == (idx \div pooled_width) % pooled_height
        c == ((idx \div pooled_width) \div pooled_height) % channels
        n == ((idx \div pooled_width) \div pooled_height) \div channels
        roi_start_w == RMul(rois[n][1], spatial_scale)
        roi_start_h == RMul(rois[n][2], spatial_scale)
        roi_end_w == RMul(rois[n][3], spatial_scale)
        roi_end_h == RMul(rois[n][4], spatial_scale)
        roi_width == backward_gpu_roi_size(roi_start_w, roi_end_w)
        roi_height == backward_gpu_roi_size(roi_start_h, roi_end_h)
        roi_bin_grid_h ==
            IF S.sampling_ratio[1] > 0 THEN S.sampling_ratio[1]
            ELSE Ceil(RDiv(roi_height, R(pooled_height)))
        roi_bin_grid_w ==
            IF S.sampling_ratio[2] > 0 THEN S.sampling_ratio[2]
            ELSE Ceil(RDiv(roi_width, R(pooled_width)))
    IN  [pw |-> pw, ph |-> ph, c |-> c, n |-> n,
         roi_batch_ind |-> Trunc(rois[n][0]),
         roi_start_w |-> roi_start_w, roi_start_h |-> roi_start_h,
         roi_width |-> roi_width, roi_height |-> roi_height,
         bin_size_h |-> RDiv(roi_height, R(pooled_height)),
         bin_size_w |-> RDiv(roi_width, R(pooled_width)),
         roi_bin_grid_h |-> roi_bin_grid_h,
         roi_bin_grid_w |-> roi_bin_grid_w,
         count |-> R(roi_bin_grid_h * roi_bin_grid_w)]

\* y at the top of an iy iteration of backward_gpu
backward_gpu_y(L, iy0) ==
    RAdd(RAdd(L.roi_start_h, RMul(R(L.ph), L.bin_size_h)),
         RDiv(RMul(RAdd(R(iy0), Half), L.bin_size_h), R(L.roi_bin_grid_h)))

\* x at the top of an ix iteration of backward_gpu
backward_gpu_x(L, ix0) ==
    RAdd(RAdd(L.roi_start_w, RMul(R(L.pw), L.bin_size_w)),
         RDiv(RMul(RAdd(R(ix0), Half), L.bin_size_w), R(L.roi_bin_grid_w)))

\* the test that guards the "continue" of backward_gpu
backward_gpu_outside(y0, x0, height, width) ==
    RLt(y0, R(-1)) \/ RLt(R(height), y0) \/ RLt(x0, R(-1)) \/ RLt(R(width), x0)

\* the bilinear interpolation block of backward_gpu for a sample that is not skipped:
\* the clamped y, the neighbour indices and the weights
backward_gpu_interp(y0, x0, height, width) ==
    LET y1 == IF RLe(y0, Zero) THEN Zero ELSE y0
        x1 == IF RLe(x0, Zero) THEN Zero ELSE x0
        yl == Trunc(y1)
        xl == Trunc(x1)
        y_low == IF yl >= height - 1 THEN height - 1 ELSE yl
        y_high == IF yl >= height - 1 THEN height - 1 ELSE yl + 1
        y2 == IF yl >= height - 1 THEN R(y_low) ELSE y1
        x_low == IF xl >= width - 1 THEN width - 1 ELSE xl
        x_high == IF xl >= width - 1 THEN width - 1 ELSE xl + 1
        x2 == IF xl >= width - 1 THEN R(x_low) ELSE x1
        ly == RSub(y2, R(y_low))
        lx == RSub(x2, R(x_low))
        hy == RSub(One, ly)
        hx == RSub(One, lx)
    IN  [y |-> y2, y_low |-> y_low, y_high |-> y_high,
         x_low |-> x_low, x_high |-> x_high,
         w1 |-> RMul(hy, hx), w2 |-> RMul(hy, lx),
         w3 |-> RMul(ly, hx), w4 |-> RMul(ly, lx)]

\* atomicAdd(&a[idx], g)
atomicAdd(a, idx, g) == [a EXCEPT !.data[idx] = RAdd(@, g)]

\* the atomicAdd calls of the backward kernel for one sample, in order: each
\* a destination and an amount (none when the index guard fails)
backward_gpu_adds(b, c, s, top_diff_this_bin, count) ==
    LET g1 == RDiv(RMul(top_diff_this_bin, s.w1), count)
        g2 == RDiv(RMul(top_diff_this_bin, s.w2), count)
        g3 == RDiv(RMul(top_diff_this_bin, s.w3), count)
        g4 == RDiv(RMul(top_diff_this_bin, s.w4), count)
    IN  IF s.x_low >= 0 /\ s.x_high >= 0 /\ s.y_low >= 0 /\ s.y_high >= 0
        THEN << <<(<<b, c, s.y_low, s.x_low>>), g1>>,
                <<(<<b, c, s.y_low, s.x_high>>), g2>>,
                <<(<<b, c, s.y_high, s.x_low>>), g3>>,
                <<(<<b, c, s.y_high, s.x_high>>), g4>> >>
        ELSE << >>

\* top_diff[top_offset + ph * pooled_width + pw] of the backward kernel
backward_gpu_top_diff(gy, L) ==
    LET pooled_height == gy.shape[3]
        pooled_width == gy.shape[4]
        channels == gy.shape[2]
        top_offset == (L.n * channels + L.c) * pooled_height * pooled_width
        off == top_offset + L.ph * pooled_width + L.pw
    IN  gy.data[<<off \div (pooled_width * pooled_height * channels),
                  (off \div (pooled_width * pooled_height)) % channels,
                  (off \div pooled_width) % pooled_height,
                  off % pooled_width>>]

\* The loops of the backward kernel for one cell, as steps on the loop state
\* ls = [pc, iy, ix, y, bottom_diff].
\* At the test of "for (iy...; iy < roi_bin_grid_h; ...)"
backward_gpu_row_step(L, ls) ==
    IF ls.iy < L.roi_bin_grid_h
    THEN [ls EXCEPT !.pc = "ix", !.y = backward_gpu_y(L, ls.iy), !.ix = 0]
    ELSE [ls EXCEPT !.pc = "end"]

RECURSIVE ApplyAdds(_, _)
\* the atomicAdd calls of one sample applied one after the other
ApplyAdds(diff, adds) ==
    IF adds = << >> THEN diff
    ELSE ApplyAdds(atomicAdd(diff, adds[1][1], adds[1][2]), Tail(adds))

\* At the test of "for (ix...; ix < roi_bin_grid_w; ix++)": one sample point
\* with its atomicAdd calls (a "continue" goes on to ix++), or the end of the
\* row (iy++)
backward_gpu_sample_step(gy, L, ls) ==
    LET height == ls.bottom_diff.shape[3]
        width == ls.bottom_diff.shape[4]
        x == backward_gpu_x(L, ls.ix)
        s == backward_gpu_interp(ls.y, x, height, width)
    IN  IF ls.ix < L.roi_bin_grid_w
        THEN IF backward_gpu_outside(ls.y, x, height, width)
             THEN [ls EXCEPT !.ix = @ + 1]
             ELSE [ls EXCEPT !.y = s.y,
                             !.bottom_diff =
                                 ApplyAdds(@, backward_gpu_adds(L.roi_batch_ind, L.c, s,
                                               backward_gpu_top_diff(gy, L), L.count)),
                             !.ix = @ + 1]
        ELSE [ls EXCEPT !.pc = "iy", !.iy = @ + 1]

\* backward_gpu is called with an output gradient of GYs that has the shape of
\* the Output Map: the Gradient Map is zeroed and one task per output cell is
\* launched (lines 412-415, 541-544)
backward_gpu_begin(GYs) ==
    /\ pc = "gpu_fwd_done"
    /\ \E gy \in {g \in GYs : g.shape = top_data.shape} : top_diff' = gy
    /\ bottom_diff' = zeros(self._bottom_data_shape)
    /\ tasks' = [t \in 0..(Size(top_diff'.shape) - 1) |->
                    [pc |-> "iy", iy |-> 0, ix |-> 0, y |-> Zero, output_val |-> Zero,
                     adds |-> << >>]]
    /\ matching' = Len(retained)
    /\ pc' = "gpu_bwd"
    /\ UNCHANGED <<retained, base, sub_dataset, asked, in_types, calls, args, self, bottom_data, bottom_rois, top_data, i, iy, ix, y,
                   output_val>>

\* one step of the backward kernel's task t, up to and including its next
\* access to the shared Gradient Map: a loop test, or a sample point's first
\* atomicAdd (the other three are left pending), or a pending atomicAdd
backward_gpu_task(t) ==
    /\ pc = "gpu_bwd"
    /\ tasks[t].pc \in {"iy", "ix", "add"}
    /\ \E L \in {backward_gpu_locals(self, bottom_rois, self._bottom_data_shape[2], t)} :
       \E ls \in {tasks[t]} :
       \E x \in {backward_gpu_x(L, ls.ix)} :
       \E s \in {backward_gpu_interp(ls.y, x, self._bottom_data_shape[3],
                                     self._bottom_data_shape[4])} :
       LET height == self._bottom_data_shape[3]
           width == self._bottom_data_shape[4]
           adds == IF ls.pc = "add" THEN ls.adds
                   ELSE backward_gpu_adds(L.roi_batch_ind, L.c, s,
                                          backward_gpu_top_diff(top_diff, L), L.count)
           after == [ls EXCEPT !.adds = Tail(adds),
                               !.pc = IF Len(adds) > 1 THEN "add" ELSE "ix",
                               !.ix = IF Len(adds) > 1 THEN @ ELSE @ + 1]
       IN  CASE ls.pc = "iy" ->
                  /\ tasks' = [tasks EXCEPT ![t] =
                                  LET n == backward_gpu_row_step(L, ls)
                                  IN  IF n.pc = "end" THEN [n EXCEPT !.pc = "done"] ELSE n]
                  /\ UNCHANGED bottom_diff
             [] ls.pc = "ix" /\ ~(ls.ix < L.roi_bin_grid_w) ->
                  /\ tasks' = [tasks EXCEPT ![t] = [ls EXCEPT !.pc = "iy", !.iy = @ + 1]]
                  /\ UNCHANGED bottom_diff
             [] ls.pc = "ix" /\ ls.ix < L.roi_bin_grid_w
                  /\ backward_gpu_outside(ls.y, x, height, width) ->
                  /\ tasks' = [tasks EXCEPT ![t] = [ls EXCEPT !.ix = @ + 1]]
                  /\ UNCHANGED bottom_diff
             [] ls.pc = "ix" /\ ls.ix < L.roi_bin_grid_w
                  /\ ~backward_gpu_outside(ls.y, x, height, width) ->
                  IF adds = << >>
                  THEN /\ tasks' = [tasks EXCEPT ![t] = [ls EXCEPT !.y = s.y, !.ix = @ + 1]]
                       /\ UNCHANGED bottom_diff
                  ELSE /\ bottom_diff' = atomicAdd(bottom_diff, adds[1][1], adds[1][2])
                       /\ tasks' = [tasks EXCEPT ![t] = [after EXCEPT !.y = s.y]]
             [] ls.pc = "add" ->
                  /\ bottom_diff' = atomicAdd(bottom_diff, adds[1][1], adds[1][2])
                  /\ tasks' = [tasks EXCEPT ![t] = after]
    /\ UNCHANGED <<retained, matching, base, sub_dataset, asked, in_types, calls, pc, args, self, bottom_data, bottom_rois, top_data, top_diff,
                   i, iy, ix, y, output_val>>

\* every task has finished: backward_gpu returns bottom_diff
backward_gpu_return ==
    /\ pc = "gpu_bwd"
    /\ \A t \in DOMAIN tasks : tasks[t].pc = "done"
    /\ pc' = "gpu_bwd_done"
    /\ UNCHANGED <<retained, matching, base, sub_dataset, asked, in_types, calls, tasks, args, self, bottom_data, bottom_rois, top_data, top_diff,
                   bottom_diff, i, iy, ix, y, output_val>>

(* ------------------------------ inputs -------------------------------- *)
\* constructor arguments
OutArgs == {PyInt(k) : k \in -1..MaxOut} \cup {PyFloat(One)}
ScaleArgs == {PyInt(0), PyInt(1), PyFloat(R(-1)), PyFloat(Zero), PyFloat(Half)}
RatioValues == {PyInt(k) : k \in -1..MaxRatio}
RatioArgs ==
    {Scalar(a) : a \in RatioValues \cup {PyFloat(One)}}
    \cup {Iter(p[1], p[2]) : p \in {q \in RatioValues \X RatioValues : q[1] # q[2]}}
AllArgs ==
    [outh : OutArgs, outw : OutArgs, spatial_scale : ScaleArgs, sampling_ratio : RatioArgs]

\* feature maps: shape (1, channels, height, width), cell values 0, 1, 2, ...
\* in row-major order
Shapes ==
    {<<1, c, h, w>> : c \in 1..MaxChannels, h \in 1..MaxHeight, w \in 1..MaxWidth}
Flat(shape, idx) ==
    ((idx[1] * shape[2] + idx[2]) * shape[3] + idx[3]) * shape[4] + idx[4]
Arange(shape) == [shape |-> shape, data |-> [idx \in Indices(shape) |-> R(Flat(shape, idx))]]

\* ROI rows (batch_index, x_min, y_min, x_max, y_max)
Row(b, x1, y1, x2, y2) ==
    (0 :> R(b)) @@ (1 :> R(x1)) @@ (2 :> R(y1)) @@ (3 :> R(x2)) @@ (4 :> R(y2))
\* the extent <<min, max>> of a ROI on one axis: inside the map, degenerate,
\* inverted, straddling the lower edge, ending beyond the upper edge, and
\* wholly beyond either edge
Extents ==
    {<<0, 1>>, <<0, 2>>, <<1, 1>>, <<2, 0>>, <<-1, 0>>, <<1, MaxCoord>>,
     <<MaxCoord, MaxCoord>>, <<-MaxNeg, -MaxNeg>>}
\* the extents inside the map
Plain == {<<0, 1>>, <<0, 2>>, <<1, 1>>}
\* ROIs with at least one axis inside the map
RoiRows ==
    {Row(0, e[1][1], e[2][1], e[1][2], e[2][2]) :
        e \in {p \in Extents \X Extents : p[1] \in Plain \/ p[2] \in Plain}}
\* ROI lists of one row
RoiLists1 == {(0 :> r) : r \in RoiRows}
\* ROI lists of two rows, both inside or around the map
RoiLists2 ==
    {(0 :> Row(0, e1[1], e1[1], e1[2], e1[2])) @@ (1 :> Row(0, e2[1], e2[1], e2[2], e2[2])) :
        e1 \in Plain, e2 \in Plain}

Inputs ==
    {<<Arange(sh), rois>> : sh \in {t \in Shapes : t[2] = 1}, rois \in RoiLists1}
    \cup {<<Arange(<<1, MaxChannels, MaxHeight, MaxWidth>>), rois>> : rois \in RoiLists2}

\* the shapes an Output Map can have
TopShapes ==
    {<<n, c, oh, ow>> : n \in 1..2, c \in 1..MaxChannels, oh \in 1..MaxOut, ow \in 1..MaxOut}
\* output gradients: every cell 1
Ones(shape) == {[shape |-> shape, data |-> [idx \in Indices(shape) |-> One]]}

(* ------------------------- sliceable datasets --------------------------- *)
\* the largest length of a base dataset
MaxLen == 3
\* slice bounds are drawn from -MaxIdx..MaxIdx
MaxIdx == 4
\* slice steps are drawn from -MaxStep..MaxStep
MaxStep == 2

None == [t |-> "NoneType", v |-> Zero]
NoBase == [len |-> -1, keys |-> << >>]
NoSub == [_index |-> << >>, keys |-> << >>]
NoCall == [op |-> "", i |-> 0, keys |-> << >>, raises |-> "", value |-> 0]

\* slice(start, stop, step).indices(length): step defaults to 1 and must not
\* be 0; a negative bound counts from the end; bounds are clipped to
\* [0, length] for a positive step and to [-1, length - 1] for a negative one
slice_indices(index, length) ==
    LET ints  == {"int", "NoneType"}
        step  == IF index[3] = None THEN 1 ELSE index[3].v[1]
        lower == IF step < 0 THEN -1 ELSE 0
        upper == IF step < 0 THEN length - 1 ELSE length
        clip(b) == IF b.v[1] < 0
                   THEN (IF b.v[1] + length < lower THEN lower ELSE b.v[1] + length)
                   ELSE (IF b.v[1] > upper THEN upper ELSE b.v[1])
        start == IF index[1] = None THEN (IF step < 0 THEN upper ELSE lower)
                 ELSE clip(index[1])
        stop  == IF index[2] = None THEN (IF step < 0 THEN lower ELSE upper)
                 ELSE clip(index[2])
    IN  IF index[3].t \notin ints
        THEN [raises |-> "TypeError", start |-> 0, stop |-> 0, step |-> 0]
        ELSE IF step = 0
        THEN [raises |-> "ValueError", start |-> 0, stop |-> 0, step |-> 0]
        ELSE IF index[1].t \notin ints \/ index[2].t \notin ints
        THEN [raises |-> "TypeError", start |-> 0, stop |-> 0, step |-> 0]
        ELSE [raises |-> "", start |-> start, stop |-> stop, step |-> step]

\* len(range(start, end, step)), step # 0
range_len(start, end, step) ==
    IF step > 0 /\ start < end THEN 1 + ((end - 1 - start) \div step)
    ELSE IF step < 0 /\ start > end THEN 1 + ((start - 1 - end) \div (-step))
    ELSE 0

\* SlicedDataset.__init__ (the base), with the length its own base reports
SlicedDataset_init(Bases) ==
    /\ base = NoBase
    /\ \E b \in Bases : base' = b
    /\ UNCHANGED <<retained, matching, sub_dataset, asked, in_types, calls, pc, tasks, args, self, bottom_data,
                   bottom_rois, top_data, top_diff, bottom_diff, i, iy, ix, y, output_val>>

\* SubDataset.__init__
SubDataset_init(b, index) == [_index |-> index, keys |-> b.keys]

\* base.sub(start, stop, step)
BaseDataset_sub(Starts, Stops, Steps) ==
    /\ base # NoBase
    /\ sub_dataset = NoSub
    /\ \E start \in Starts, stop \in Stops, step \in Steps :
           sub_dataset' = SubDataset_init(base, <<start, stop, step>>)
    /\ UNCHANGED <<retained, matching, base, asked, in_types, calls, pc, tasks, args, self, bottom_data,
                   bottom_rois, top_data, top_diff, bottom_diff, i, iy, ix, y, output_val>>

\* SubDataset.__len__
SubDataset_len(b, sub) ==
    LET S == slice_indices(sub._index, b.len)
    IN  [op |-> "__len__", i |-> 0, keys |-> << >>, raises |-> S.raises,
         value |-> IF S.raises = "" THEN range_len(S.start, S.stop, S.step) ELSE 0]

\* variant: the step is left out of the index handed to the base
SubDataset_get_example_by_keys_unit_step(b, sub, k, keys) ==
    LET S == slice_indices(sub._index, b.len)
    IN  [op |-> "get_example_by_keys", i |-> k, keys |-> keys, raises |-> S.raises,
         value |-> IF S.raises = "" THEN S.start + k ELSE 0]

\* SubDataset.get_example_by_keys: value is the index the base is asked for,
\* keys the keys it is asked for
SubDataset_get_example_by_keys(b, sub, k, keys) ==
    LET S == slice_indices(sub._index, b.len)
    IN  [op |-> "get_example_by_keys", i |-> k, keys |-> keys, raises |-> S.raises,
         value |-> IF S.raises = "" THEN S.start + k * S.step ELSE 0]

\* len(sub_dataset)
SubDataset_len_call ==
    /\ sub_dataset # NoSub
    /\ asked' = SubDataset_len(base, sub_dataset)
    /\ UNCHANGED <<retained, matching, base, sub_dataset, in_types, calls, pc, tasks, args, self, bottom_data,
                   bottom_rois, top_data, top_diff, bottom_diff, i, iy, ix, y, output_val>>

\* sub_dataset.get_example_by_keys(k, keys)
SubDataset_get_example_by_keys_call(Is, Keys) ==
    /\ sub_dataset # NoSub
    /\ \E k \in Is, keys \in Keys :
           asked' = SubDataset_get_example_by_keys(base, sub_dataset, k, keys)
    /\ UNCHANGED <<retained, matching, base, sub_dataset, in_types, calls, pc, tasks, args, self, bottom_data,
                   bottom_rois, top_data, top_diff, bottom_diff, i, iy, ix, y, output_val>>

\* sub_dataset.get_example(k): get_example_by_keys with the dataset's own keys
BaseDataset_get_example(Is) ==
    /\ sub_dataset # NoSub
    /\ \E k \in Is :
           asked' = [SubDataset_get_example_by_keys(base, sub_dataset, k, sub_dataset.keys)
                        EXCEPT !.op = "get_example"]
    /\ UNCHANGED <<retained, matching, base, sub_dataset, in_types, calls, pc, tasks, args, self, bottom_data,
                   bottom_rois, top_data, top_diff, bottom_diff, i, iy, ix, y, output_val>>

KeyTuples == {<<"img">>, <<"img", "label">>, <<"label">>}
Bases == [len : 0..MaxLen, keys : {<<"img">>, <<"img", "label">>}]
Bounds == {None} \cup {PyInt(k) : k \in (-MaxIdx)..MaxIdx}
Starts == Bounds \cup {PyFloat(Half)}
Steps == {None} \cup {PyInt(k) : k \in (-MaxStep)..MaxStep}
Positions == (-1)..MaxLen

(* --------------------------- specification ---------------------------- *)
Init ==
    /\ pc = "new"
    /\ args = [outh |-> PyInt(0), outw |-> PyInt(0), spatial_scale |-> PyInt(0),
               sampling_ratio |-> Scalar(PyInt(0))]
    /\ self = Unset
    /\ bottom_data = empty(<<0, 0, 0, 0>>)
    /\ bottom_rois = << >>
    /\ top_data = empty(<<0, 0, 0, 0>>)
    /\ top_diff = empty(<<0, 0, 0, 0>>)
    /\ bottom_diff = empty(<<0, 0, 0, 0>>)
    /\ i = 0 /\ iy = 0 /\ ix = 0
    /\ y = Zero
    /\ output_val = Zero
    /\ tasks = << >>
    /\ in_types = << >>
    /\ calls = 0
    /\ base = NoBase
    /\ sub_dataset = NoSub
    /\ asked = NoCall
    /\ retained = << >>
    /\ matching = 0

Next ==
    \/ ROIAlign2D_init(AllArgs)
    \/ forward_cpu_begin(Inputs)
    \/ forward_cpu_cell
    \/ forward_cpu_row
    \/ forward_cpu_sample
    \/ backward_cpu_begin(UNION {Ones(sh) : sh \in TopShapes})
    \/ backward_cpu_cell
    \/ backward_cpu_row
    \/ backward_cpu_sample

Spec == Init /\ [][Next]_vars

\* feature maps and output gradients with one cell 1 and the others 0
OneHots(shape) ==
    {[shape |-> shape, data |-> [idx \in Indices(shape) |-> IF idx = h THEN One ELSE Zero]] :
        h \in Indices(shape)}
OneHotsAndOnes(shape) == OneHots(shape) \cup Ones(shape)

\* forward then backward on varied feature values and output gradients
AdjArgs ==
    [outh : {PyInt(1), PyInt(MaxOut)}, outw : {PyInt(1), PyInt(MaxOut)},
     spatial_scale : {PyInt(1), PyFloat(Half)},
     sampling_ratio : {Scalar(PyInt(0)), Scalar(PyInt(MaxRatio))}]
AdjRois ==
    {(0 :> Row(0, ex[1], ey[1], ex[2], ey[2])) : ex \in Plain, ey \in Plain}
    \cup {(0 :> Row(0, 0, 0, 2, 2)) @@ (1 :> Row(0, e[1], e[1], e[2], e[2])) : e \in Plain}
    \cup {(0 :> Row(0, 0, 1, 1, 1)) @@ (1 :> Row(0, 1, 0, 2, 2))}
AdjInputs ==
    {<<a, rois>> : a \in OneHots(<<1, 1, MaxHeight, MaxWidth>>)
                        \cup {Arange(<<1, 1, MaxHeight, MaxWidth>>)},
                   rois \in AdjRois}

NextAdj ==
    \/ ROIAlign2D_init(AdjArgs)
    \/ forward_cpu_begin(AdjInputs)
    \/ forward_cpu_cell
    \/ forward_cpu_row
    \/ forward_cpu_sample
    \/ backward_cpu_begin(UNION {OneHotsAndOnes(sh) : sh \in TopShapes})
    \/ backward_cpu_cell
    \/ backward_cpu_row
    \/ backward_cpu_sample

SpecAdj == Init /\ [][NextAdj]_vars

\* the kernels: every interleaving of the tasks' steps
GpuArgs ==
    [outh : {PyInt(1)}, outw : {PyInt(1), PyInt(2)}, spatial_scale : {PyInt(1)},
     sampling_ratio : {Scalar(PyInt(0)), Scalar(PyInt(1))}]
GpuRows ==
    {Row(0, ex[1], ey[1], ex[2], ey[2]) :
        ex \in {<<0, 1>>, <<0, 2>>, <<1, 1>>, <<MaxCoord, MaxCoord>>},
        ey \in {<<0, 1>>, <<1, 1>>}}
GpuInputs ==
    {<<Arange(<<1, 1, MaxHeight, MaxWidth>>), (0 :> r)>> : r \in GpuRows}
    \cup {<<Arange(<<1, 1, MaxHeight, MaxWidth>>), (0 :> r1) @@ (1 :> r2)>> :
            r1 \in GpuRows, r2 \in {Row(0, 0, 0, 1, 1), Row(0, 0, 0, 2, 1)}}

NextGpu ==
    \/ ROIAlign2D_init(GpuArgs)
    \/ forward_gpu_begin({in \in GpuInputs : Size(top_shape(self, in[1], in[2])) <= MaxTasks})
    \/ \E t \in DOMAIN tasks : forward_gpu_task(t)
    \/ forward_gpu_return
    \/ backward_gpu_begin(UNION {Ones(sh) : sh \in TopShapes})
    \/ \E t \in DOMAIN tasks : backward_gpu_task(t)
    \/ backward_gpu_return

SpecGpu == Init /\ [][NextGpu]_vars

(* ------------------- several calls on one operator ------------------- *)
\* the operator is applied at most MaxCalls times
MaxCalls == 2

\* the type of an input as check_type_forward sees it
TypeOf(dtype, shape) == [dtype |-> dtype, ndim |-> Len(shape), shape |-> shape]

\* variant: the number of ROI columns is not looked at
check_type_forward_any_columns(types) ==
    /\ Len(types) = 2
    /\ LET x_type == types[1]
           roi_type == types[2]
       IN  /\ x_type.dtype = "float32"
           /\ x_type.ndim = 4
           /\ roi_type.dtype = "float32"
           /\ roi_type.ndim = 2
\* TRUE iff check_type_forward lets in_types pass (every type_check.expect
\* holds); otherwise it raises InvalidType
check_type_forward(types) ==
    /\ Len(types) = 2
    /\ LET x_type == types[1]
           roi_type == types[2]
       IN  /\ x_type.dtype = "float32"
           /\ x_type.ndim = 4
           /\ roi_type.dtype = "float32"
           /\ roi_type.ndim = 2
           /\ roi_type.shape[2] = 5

\* the types of a (feature map, ROI list) pair of float32 arrays
TypesOf(in) ==
    <<TypeOf("float32", in[1].shape),
      TypeOf("float32", <<Cardinality(DOMAIN in[2]), Cardinality(DOMAIN in[2][0])>>)>>

\* the operator is applied to inputs of types from InTypes: the hook
\* check_type_forward runs first and either raises or lets the call go on
check_type_forward_call(InTypes) ==
    /\ pc \in {"ready", "invalid_type", "fwd_done", "bwd_done", "IndexError"}
    /\ calls < MaxCalls
    /\ \E t \in InTypes :
        /\ in_types' = t
        /\ pc' = IF check_type_forward(t) THEN "checked" ELSE "invalid_type"
    /\ UNCHANGED <<retained, matching, base, sub_dataset, asked, calls, tasks, args, self, bottom_data, bottom_rois,
                   top_data, top_diff, bottom_diff, i, iy, ix, y, output_val>>

\* variant: forward also sets the operator's spatial scale
forward_cpu_checked_rescaling(Ins) ==
    /\ pc = "checked"
    /\ \E in \in Ins :
        /\ TypesOf(in) = in_types
        /\ bottom_data' = in[1]
        /\ bottom_rois' = in[2]
        /\ self' = [self EXCEPT !._bottom_data_shape = in[1].shape, !.spatial_scale = One]
        /\ top_data' = empty(top_shape(self, in[1], in[2]))
        /\ retained' = Append(retained, Retain(self, in[1], in[2]))
    /\ i' = 0
    /\ pc' = "fwd_i"
    /\ calls' = calls + 1
    /\ UNCHANGED <<matching, base, sub_dataset, asked, in_types, tasks, args, top_diff, bottom_diff, iy, ix, y, output_val>>
\* forward_cpu is entered with the inputs whose types passed the hook
\* (lines 76-87)
forward_cpu_checked(Ins) ==
    /\ pc = "checked"
    /\ \E in \in Ins :
        /\ TypesOf(in) = in_types
        /\ bottom_data' = in[1]
        /\ bottom_rois' = in[2]
        /\ self' = [self EXCEPT !._bottom_data_shape = in[1].shape]
        /\ top_data' = empty(top_shape(self, in[1], in[2]))
        /\ retained' = Append(retained, Retain(self, in[1], in[2]))
    /\ i' = 0
    /\ pc' = "fwd_i"
    /\ calls' = calls + 1
    /\ UNCHANGED <<matching, base, sub_dataset, asked, in_types, tasks, args, top_diff, bottom_diff, iy, ix, y, output_val>>

CallArgs ==
    [outh : {PyInt(0), PyInt(1), PyInt(MaxOut)}, outw : {PyInt(1)},
     spatial_scale : {PyInt(1), PyFloat(Half)},
     sampling_ratio : {Scalar(PyInt(-1)), Scalar(PyInt(0)), Scalar(PyInt(MaxRatio))}]
CallInputs ==
    {<<Arange(<<1, 1, MaxHeight, MaxWidth>>), (0 :> Row(0, 0, 0, 2, 2))>>,
     <<Arange(<<1, 1, 1, MaxWidth>>), (0 :> Row(0, 0, 0, 1, 1))>>,
     <<Arange(<<1, MaxChannels, MaxHeight, 1>>), (0 :> Row(0, 0, 0, 1, 2))>>,
     <<Arange(<<1, 1, MaxHeight, MaxWidth>>),
       (0 :> Row(0, 0, 0, 1, 1)) @@ (1 :> Row(0, 0, 1, 2, 2))>>}
\* input types: those of CallInputs, and ones with a wrong number of inputs, a
\* wrong dtype, a wrong rank or a wrong number of ROI columns
CallTypes ==
    {TypesOf(in) : in \in CallInputs}
    \cup {<<TypeOf("float32", <<1, 1, 2, 2>>)>>,
          <<TypeOf("float32", <<1, 1, 2, 2>>), TypeOf("float32", <<1, 5>>),
            TypeOf("float32", <<1, 5>>)>>}
    \cup {<<TypeOf(d[1], <<1, 1, 2, 2>>), TypeOf(d[2], <<1, 5>>)>> :
            d \in {<<"float64", "float32">>, <<"float32", "float64">>,
                   <<"int32", "float32">>, <<"float32", "int32">>}}
    \cup {<<TypeOf("float32", sh), TypeOf("float32", <<1, 5>>)>> :
            sh \in {<<1, 2, 2>>, <<1, 1, 1, 2, 2>>}}
    \cup {<<TypeOf("float32", <<1, 1, 2, 2>>), TypeOf("float32", sh)>> :
            sh \in {<<5>>, <<1, 4>>, <<1, 6>>, <<5, 1>>, <<1, 5, 1>>}}

NextCalls ==
    \/ ROIAlign2D_init(CallArgs)
    \/ check_type_forward_call(CallTypes)
    \/ forward_cpu_checked(CallInputs)
    \/ forward_cpu_cell
    \/ forward_cpu_row
    \/ forward_cpu_sample
    \/ backward_cpu_begin(UNION {OneHotsAndOnes(sh) : sh \in TopShapes})
    \/ backward_cpu_cell
    \/ backward_cpu_row
    \/ backward_cpu_sample

SpecCalls == Init /\ [][NextCalls]_vars

(* ------------------- forward on a 4 x 4 feature map -------------------- *)
ScenarioArgs ==
    [outh : {PyInt(2)}, outw : {PyInt(2)}, spatial_scale : {PyFloat(One), PyFloat(Half)},
     sampling_ratio : {Scalar(PyInt(0)), Scalar(PyInt(1)), Scalar(PyInt(2))}]
ScenarioInputs ==
    {<<Arange(<<1, 1, 4, 4>>), (0 :> r)>> :
        r \in {Row(0, 0, 0, 4, 4), Row(0, 0, 0, 2, 2), Row(0, 1, 1, 3, 3)}}

NextScenario ==
    \/ ROIAlign2D_init(ScenarioArgs)
    \/ forward_cpu_begin(ScenarioInputs)
    \/ forward_cpu_cell
    \/ forward_cpu_row
    \/ forward_cpu_sample

SpecScenario == Init /\ [][NextScenario]_vars

\* a SubDataset of a base dataset, asked for its length and for examples
NextSub ==
    \/ SlicedDataset_init(Bases)
    \/ BaseDataset_sub(Starts, Bounds, Steps)
    \/ SubDataset_len_call
    \/ SubDataset_get_example_by_keys_call(Positions, KeyTuples)
    \/ BaseDataset_get_example(Positions)
SpecSub == Init /\ [][NextSub]_vars

(* ------------------------------ claims -------------------------------- *)
FwdPcs == {"fwd_i", "fwd_iy", "fwd_ix"}
BwdPcs == {"bwd_i", "bwd_iy", "bwd_ix"}
\* the locals of the cell the sequential call is working on
FL == forward_cpu_locals(self, bottom_rois, bottom_data.shape[2], i)
BL == backward_cpu_locals(self, bottom_rois, self._bottom_data_shape[2], i)
GFL == forward_gpu_locals(self, bottom_rois, bottom_data.shape[2], i)
GBL == backward_gpu_locals(self, bottom_rois, self._bottom_data_shape[2], i)
height == self._bottom_data_shape[3]
width == self._bottom_data_shape[4]
\* the sequential call is at a sample point (iy, ix) of its sampling grid
AtFwdSample == pc = "fwd_ix" /\ ix < FL.roi_bin_grid_w
AtBwdSample == pc = "bwd_ix" /\ ix < BL.roi_bin_grid_w
FX == forward_cpu_x(FL, ix)
BX == backward_cpu_x(BL, ix)

\* C1: once forward or backward has started on inputs of valid shapes it
\* completes: the call, run from its first loop test, leaves every sampling
\* loop and returns.
C1_AlwaysCompletes ==
    /\ (pc = "fwd_i" /\ i = 0) => forward_cpu(self, bottom_data, bottom_rois).returns
    /\ (pc = "bwd_i" /\ i = 0) => backward_cpu(self, bottom_rois, top_diff).returns

\* C2: the sequential path and the kernels go through the same steps: at every
\* loop test the sequential call reaches, the kernel for the same cell has the
\* same locals (geometry, grid, divisor) and its step leads to the same loop
\* state (same next sample point, same clamped y, same accumulated value).
C2_SamePath ==
    /\ pc \in {"fwd_iy", "fwd_ix"} => FL = GFL
    /\ pc \in {"bwd_iy", "bwd_ix"} => BL = GBL
    /\ pc = "fwd_iy" =>
           forward_cpu_row_step(FL, [loop EXCEPT !.pc = "iy"])
               = forward_gpu_row_step(GFL, [loop EXCEPT !.pc = "iy"])
    /\ pc = "fwd_ix" =>
           forward_cpu_sample_step(bottom_data, FL, [loop EXCEPT !.pc = "ix"])
               = forward_gpu_sample_step(bottom_data, GFL, [loop EXCEPT !.pc = "ix"])
    /\ pc = "bwd_iy" =>
           backward_cpu_row_step(BL, [bloop EXCEPT !.pc = "iy"])
               = backward_gpu_row_step(GBL, [bloop EXCEPT !.pc = "iy"])
    /\ pc = "bwd_ix" =>
           backward_cpu_sample_step(top_diff, BL, [bloop EXCEPT !.pc = "ix"])
               = backward_gpu_sample_step(top_diff, GBL, [bloop EXCEPT !.pc = "ix"])

\* the constructor arguments the claim says are rejected
BadArgs(a) ==
    \/ RLe(a.outh.v, Zero) \/ RLe(a.outw.v, Zero)
    \/ RLe(a.spatial_scale.v, Zero)
    \/ \E k \in 1..Len(a.sampling_ratio.items) : RLt(a.sampling_ratio.items[k].v, Zero)

\* C3: a non-positive output size, a non-positive spatial scale (int or float)
\* or a negative sampling ratio makes __init__ raise; no operator with such a
\* configuration exists, so none reaches forward or backward.
C3_BadArgsRejected == (pc # "new" /\ BadArgs(args)) => pc = "raised"

\* C4 as stated: a sample point with y exactly height, or x exactly width, is
\* out of bounds and skipped.
C4_AtHeightSkipped ==
    /\ (AtFwdSample /\ (y = R(height) \/ FX = R(width)))
           => forward_cpu_outside(y, FX, height, width)
    /\ (AtBwdSample /\ (y = R(height) \/ BX = R(width)))
           => backward_cpu_outside(y, BX, height, width)

\* y (resp. x) is in the last unit of the map, its upper end included
InLastRow(y0) == RLt(R(height - 1), y0) /\ RLe(y0, R(height))
InLastCol(x0) == RLt(R(width - 1), x0) /\ RLe(x0, R(width))
InRangeY(y0) == RLe(R(-1), y0) /\ RLe(y0, R(height))
InRangeX(x0) == RLe(R(-1), x0) /\ RLe(x0, R(width))

\* C4 amended: a sample point with y exactly height (x exactly width) is in
\* bounds, like one just below height: it is not skipped, both row indices are
\* height - 1 and the weights of the "high" row are those of the low one (ly is
\* 0), so forward adds a value of the last row and backward scatters into the
\* last row only; only y > height (x > width) is out of bounds on that side.
C4_AtHeightInBounds ==
    /\ (AtFwdSample /\ InLastRow(y) /\ InRangeX(FX)) =>
           LET s == forward_cpu_interp(y, FX, height, width)
               b == FL.roi_batch_ind
               n == forward_cpu_sample_step(bottom_data, FL, [loop EXCEPT !.pc = "ix"])
           IN  /\ ~forward_cpu_outside(y, FX, height, width)
               /\ s.y_low = height - 1 /\ s.y_high = height - 1
               /\ s.w3 = Zero /\ s.w4 = Zero /\ RAdd(s.w1, s.w2) = One
               /\ n.ix = ix + 1
               /\ n.output_val =
                      RAdd(output_val,
                           RAdd(RMul(s.w1, bottom_data.data[<<b, FL.c, height - 1, s.x_low>>]),
                                RMul(s.w2, bottom_data.data[<<b, FL.c, height - 1, s.x_high>>])))
    /\ (AtFwdSample /\ InLastCol(FX) /\ InRangeY(y)) =>
           LET s == forward_cpu_interp(y, FX, height, width)
           IN  /\ ~forward_cpu_outside(y, FX, height, width)
               /\ s.x_low = width - 1 /\ s.x_high = width - 1
               /\ s.w2 = Zero /\ s.w4 = Zero /\ RAdd(s.w1, s.w3) = One
    /\ (AtBwdSample /\ InLastRow(y) /\ InRangeX(BX)) =>
           LET n == backward_cpu_sample_step(top_diff, BL, [bloop EXCEPT !.pc = "ix"])
           IN  /\ ~backward_cpu_outside(y, BX, height, width)
               /\ n.ix = ix + 1
               /\ \A idx \in Indices(bottom_diff.shape) :
                      idx[3] # height - 1 => n.bottom_diff.data[idx] = bottom_diff.data[idx]
    /\ (AtFwdSample /\ (RLt(R(height), y) \/ RLt(R(width), FX)))
           => forward_cpu_outside(y, FX, height, width)
    /\ (AtBwdSample /\ (RLt(R(height), y) \/ RLt(R(width), BX)))
           => backward_cpu_outside(y, BX, height, width)

\* a sample point exactly at y = height of a map of two rows or more, x inside
C4_Witness ==
    /\ AtFwdSample /\ height >= 2 /\ y = R(height) /\ InRangeX(FX)
    /\ RLt(Zero, FX) /\ RLt(FX, R(width - 1))

\* C5: in forward an out-of-bounds sample point adds 0 and the iteration moves
\* on to the next sample point (and the sum is divided by the nominal count).
C5_SkipMovesOn ==
    (AtFwdSample /\ forward_cpu_outside(y, FX, height, width)) =>
        forward_cpu_sample_step(bottom_data, FL, [loop EXCEPT !.pc = "ix"])
            = [loop EXCEPT !.pc = "ix", !.ix = ix + 1]

NumRois == Cardinality(DOMAIN bottom_rois)
\* the ROI list holding only row n, and the rows of an output gradient for it
RoiOf(rois, n) == (0 :> rois[n])
SliceOf(gy, n) ==
    LET sh == <<1, gy.shape[2], gy.shape[3], gy.shape[4]>>
    IN  [shape |-> sh,
         data |-> [idx \in Indices(sh) |-> gy.data[<<n, idx[2], idx[3], idx[4]>>]]]
\* a backward call of its own for row n of the ROI list
SeparateCall(n) == backward_cpu(self, RoiOf(bottom_rois, n), SliceOf(top_diff, n))
CellSum(a, b) ==
    [shape |-> a.shape,
     data |-> [idx \in Indices(a.shape) |-> RAdd(a.data[idx], b.data[idx])]]

\* C6: backward accumulates: the Gradient Map of one backward call over a list
\* of two ROIs is the cell-wise sum of the Gradient Maps of two backward calls,
\* one per ROI, each with its own rows of the output gradient.
C6_Accumulates ==
    (pc = "bwd_done" /\ NumRois = 2) =>
        /\ SeparateCall(0).returns /\ SeparateCall(1).returns
        /\ bottom_diff = CellSum(SeparateCall(0).bottom_diff, SeparateCall(1).bottom_diff)

\* one call over two ROIs has returned and both ROIs gave a non-zero gradient
\* to one and the same feature-map cell
C6_Witness ==
    /\ pc = "bwd_done" /\ NumRois = 2
    /\ \E idx \in Indices(bottom_diff.shape) :
           /\ SeparateCall(0).bottom_diff.data[idx] # Zero
           /\ SeparateCall(1).bottom_diff.data[idx] # Zero

\* C7: for every interleaving of the kernel's tasks the Gradient Map it leaves
\* is the one the sequential backward produces on the same inputs.
C7_MatchesSequential ==
    pc = "gpu_bwd_done" =>
        LET r == backward_cpu(self, bottom_rois, top_diff)
        IN  r.returns /\ r.bottom_diff = bottom_diff

\* whenever the sequential backward does return on the kernel's inputs, every
\* interleaving of the kernel leaves its Gradient Map: no atomicAdd is lost
AtomicAddsNotLost ==
    pc = "gpu_bwd_done" =>
        LET r == backward_cpu(self, bottom_rois, top_diff)
        IN  r.returns => r.bottom_diff = bottom_diff

RECURSIVE SumOver(_, _)
SumOver(f, D) ==
    IF D = {} THEN Zero
    ELSE LET d == CHOOSE e \in D : TRUE IN RAdd(f[d], SumOver(f, D \ {d}))
Dot(a, b) == SumOver([idx \in Indices(a.shape) |-> RMul(a.data[idx], b.data[idx])],
                     Indices(a.shape))
\* the feature map that is 1 at cell h and 0 elsewhere
Basis(shape, h) ==
    [shape |-> shape, data |-> [idx \in Indices(shape) |-> IF idx = h THEN One ELSE Zero]]
\* the coefficient of feature cell h in output cell o of forward
Coefficient(h, o) ==
    forward_cpu(self, Basis(bottom_data.shape, h), bottom_rois).top_data.data[o]

\* C8: backward is the transpose of forward: forward is linear in the feature
\* map (each output cell is the sum of the feature cells times their
\* coefficients), the sum over output cells of g * forward(x) equals the sum
\* over feature cells of x * backward(g), and backward's value at a feature
\* cell is the sum over output cells of g times that cell's coefficient.
C8_Transpose ==
    /\ pc = "fwd_done" =>
           \A o \in Indices(top_data.shape) :
               top_data.data[o] =
                   SumOver([h \in Indices(bottom_data.shape) |->
                               RMul(bottom_data.data[h], Coefficient(h, o))],
                           Indices(bottom_data.shape))
    /\ pc = "bwd_done" =>
           /\ Dot(top_diff, top_data) = Dot(bottom_data, bottom_diff)
           /\ \A h \in Indices(bottom_diff.shape) :
                  bottom_diff.data[h] =
                      SumOver([o \in Indices(top_diff.shape) |->
                                  RMul(top_diff.data[o], Coefficient(h, o))],
                              Indices(top_diff.shape))

\* backward has returned a Gradient Map with a fractional weight in it, for a
\* feature map and an output gradient whose products do not sum to 0
C8_Witness ==
    /\ pc = "bwd_done"
    /\ Dot(top_diff, top_data) # Zero
    /\ \E h \in Indices(bottom_diff.shape) :
           RLt(Zero, bottom_diff.data[h]) /\ RLt(bottom_diff.data[h], Half)

\* the output cell the sequential forward is working on
FwdCell == <<FL.n, FL.c, FL.ph, FL.pw>>

\* C9: forward's Output Map has shape (num_rois, channels, out_height,
\* out_width); every step of the call leaves the Feature Map and the ROI List
\* as they are; a step that changes the Output Map assigns exactly one cell that
\* had not been assigned, so after i tasks i distinct cells are assigned, and
\* when the call returns every cell is.
C9_ShapeAndFrame ==
    [][/\ pc \in FwdPcs =>
              /\ bottom_data' = bottom_data
              /\ bottom_rois' = bottom_rois
              /\ top_data'.shape = top_data.shape
       /\ (pc \in FwdPcs /\ top_data' # top_data) =>
              /\ FwdCell \in Indices(top_data.shape)
              /\ FwdCell \notin DOMAIN top_data.data
              /\ DOMAIN top_data'.data = DOMAIN top_data.data \cup {FwdCell}
              /\ \A o \in DOMAIN top_data.data : top_data'.data[o] = top_data.data[o]
              /\ i' = i + 1
       /\ pc' \in FwdPcs \cup {"fwd_done"} =>
              /\ top_data'.shape
                     = <<NumRois', bottom_data'.shape[2], self'.outh, self'.outw>>
              /\ Cardinality(DOMAIN top_data'.data) = i'
              /\ pc' = "fwd_done" => DOMAIN top_data'.data = Indices(top_data'.shape)
      ]_vars

\* forward has returned an Output Map for two ROIs and two channels, with an
\* output height that is not the output width
C9_Witness ==
    /\ pc = "fwd_done"
    /\ NumRois = 2 /\ bottom_data.shape[2] = 2 /\ self.outh # self.outw
    /\ DOMAIN top_data.data = Indices(<<2, 2, self.outh, self.outw>>)

\* C10: for every ROI, degenerate and inverted ones too, the scaled region's
\* width and height are at least 1, the grid on each axis is the configured
\* ratio when that is > 0 and the ceiling of region size / output size
\* otherwise, and at least 1 either way, so the divisor is at least 1; no
\* sample coordinate, partial sum or stored output is undefined.
C10_DivisorAtLeastOne ==
    /\ pc \in {"fwd_iy", "fwd_ix"} =>
           /\ RLe(One, FL.roi_width) /\ RLe(One, FL.roi_height)
           /\ FL.roi_bin_grid_h >= 1 /\ FL.roi_bin_grid_w >= 1
           /\ FL.roi_bin_grid_h =
                  IF self.sampling_ratio[1] > 0 THEN self.sampling_ratio[1]
                  ELSE Ceil(RDiv(FL.roi_height, R(self.outh)))
           /\ FL.roi_bin_grid_w =
                  IF self.sampling_ratio[2] > 0 THEN self.sampling_ratio[2]
                  ELSE Ceil(RDiv(FL.roi_width, R(self.outw)))
           /\ RLe(One, FL.count)
           /\ ~IsNaN(FL.bin_size_h) /\ ~IsNaN(FL.bin_size_w)
           /\ ~IsNaN(output_val)
    /\ pc = "fwd_ix" => ~IsNaN(y) /\ ~IsNaN(FX)
    /\ pc \in FwdPcs \cup {"fwd_done"} =>
           \A o \in DOMAIN top_data.data : ~IsNaN(top_data.data[o])

\* forward has stored the output of a ROI that is inverted along x and
\* degenerate along y, with the grid derived from the region (ratio 0)
C10_Witness ==
    /\ pc = "fwd_done"
    /\ self.sampling_ratio = <<0, 0>>
    /\ RLt(bottom_rois[0][3], bottom_rois[0][1])
    /\ bottom_rois[0][4] = bottom_rois[0][2]
    /\ DOMAIN top_data.data # {}

\* C11: over any sequence of forward and backward calls on one operator,
\* each backward starts from a Gradient Map of zeros of the shape of the feature
\* map of its matching forward call, keeps that shape until it ends, and the
\* shape it allocates from is that of its matching call, whatever other calls
\* were made in between.
C11_BackwardFresh ==
    /\ (pc = "bwd_i" /\ i = 0) => bottom_diff = zeros(retained[matching].shape)
    /\ pc \in BwdPcs \cup {"bwd_done", "IndexError"} =>
           /\ self._bottom_data_shape = retained[matching].shape
           /\ bottom_diff.shape = retained[matching].shape

\* two inputs, a rank-4 float32 feature map and a rank-2 float32 ROI list of
\* 5 columns
WellTyped(types) ==
    /\ Len(types) = 2
    /\ types[1].dtype = "float32" /\ Len(types[1].shape) = 4
    /\ types[2].dtype = "float32" /\ Len(types[2].shape) = 2
    /\ types[2].shape[2] = 5

\* C12: the validation hook lets a call go on exactly when it has two inputs, a
\* rank-4 float32 feature map and a rank-2 float32 ROI list with 5 columns;
\* forward is entered only after the hook has let the inputs pass; a step in
\* which the hook rejects allocates no Output Map and leaves the operator's
\* attributes (the retained shape among them) and every array as they were.
C12_HookRejects ==
    [][/\ pc' = "checked" => WellTyped(in_types')
       /\ pc' = "invalid_type" =>
              /\ ~WellTyped(in_types')
              /\ self' = self /\ calls' = calls
              /\ top_data' = top_data /\ bottom_data' = bottom_data
              /\ bottom_rois' = bottom_rois
              /\ top_diff' = top_diff /\ bottom_diff' = bottom_diff
       /\ calls' # calls => pc = "checked" /\ WellTyped(in_types)
      ]_vars

\* after a call that went through, the hook has rejected a ROI list of 4
\* columns
C12_Witness ==
    /\ pc = "invalid_type" /\ calls = 1
    /\ self._bottom_data_shape # << >>
    /\ Len(in_types) = 2 /\ in_types[2].shape = <<1, 4>>

\* forward_cpu is running, or has returned, on the feature map 0..15 of shape
\* (1, 1, 4, 4), the ROI (0, 0, 0, 4, 4), scale 1.0, output 2 x 2 and ratio 1
InScenario ==
    /\ pc \in FwdPcs \cup {"fwd_done"}
    /\ bottom_data = Arange(<<1, 1, 4, 4>>)
    /\ bottom_rois = (0 :> Row(0, 0, 0, 4, 4))
    /\ self.outh = 2 /\ self.outw = 2
    /\ self.spatial_scale = One /\ self.sampling_ratio = <<1, 1>>

\* C13: in that scenario every output bin has a grid of one sample point, the
\* point of bin (ph, pw) is at the integer coordinates (1 + 2 ph, 1 + 2 pw), its
\* weights are (1, 0, 0, 0), the bin's output is the feature value at that
\* point, and the Output Map is ((5, 7), (13, 15)).
C13_Scenario ==
    InScenario =>
        /\ pc \in {"fwd_iy", "fwd_ix"} =>
               /\ FL.roi_bin_grid_h = 1 /\ FL.roi_bin_grid_w = 1 /\ FL.count = One
        /\ AtFwdSample =>
               LET s == forward_cpu_interp(y, FX, height, width)
                   n == forward_cpu_sample_step(bottom_data, FL, [loop EXCEPT !.pc = "ix"])
               IN  /\ y = R(1 + 2 * FL.ph) /\ FX = R(1 + 2 * FL.pw)
                   /\ ~forward_cpu_outside(y, FX, height, width)
                   /\ s.y_low = 1 + 2 * FL.ph /\ s.x_low = 1 + 2 * FL.pw
                   /\ <<s.w1, s.w2, s.w3, s.w4>> = <<One, Zero, Zero, Zero>>
                   /\ output_val = Zero
                   /\ n.output_val = bottom_data.data[<<0, 0, 1 + 2 * FL.ph, 1 + 2 * FL.pw>>]
        /\ \A o \in DOMAIN top_data.data :
               top_data.data[o] = bottom_data.data[<<0, 0, 1 + 2 * o[3], 1 + 2 * o[4]>>]
        /\ pc = "fwd_done" =>
               top_data.data = (<<0, 0, 0, 0>> :> R(5)) @@ (<<0, 0, 0, 1>> :> R(7))
                               @@ (<<0, 0, 1, 0>> :> R(13)) @@ (<<0, 0, 1, 1>> :> R(15))

\* forward has returned in the scenario
C13_Witness == InScenario /\ pc = "fwd_done" /\ Cardinality(DOMAIN top_data.data) = 4

\* the sampling ratio pair the constructor's argument stands for
ArgRatio ==
    LET items == args.sampling_ratio.items
    IN  IF args.sampling_ratio.iter THEN <<Trunc(items[1].v), Trunc(items[2].v)>>
        ELSE <<Trunc(items[1].v), Trunc(items[1].v)>>

\* C14: once __init__ has returned, outh, outw, spatial_scale and the sampling
\* ratio pair are the constructor's values in every state of every sequence of
\* calls; when __init__ raised none of them is set.
C14_ConfigImmutable ==
    /\ pc \notin {"new", "raised"} =>
           /\ R(self.outh) = args.outh.v /\ R(self.outw) = args.outw.v
           /\ self.spatial_scale = args.spatial_scale.v
           /\ self.sampling_ratio = ArgRatio
    /\ pc = "raised" => self = Unset

\* the backward of a second call has returned on an operator of scale 1/2
C14_Witness ==
    /\ pc = "bwd_done" /\ calls = 2
    /\ self.spatial_scale = Half /\ self.outh = MaxOut

\* the row-major decomposition of the flat index k over (n, c, ph, pw)
IndexOk(L, k) ==
    /\ L.pw = k % self.outw
    /\ L.ph = (k \div self.outw) % self.outh
    /\ L.c = (k \div (self.outw * self.outh)) % self._bottom_data_shape[2]
    /\ L.n = k \div (self.outw * self.outh * self._bottom_data_shape[2])
    /\ ((L.n * self._bottom_data_shape[2] + L.c) * self.outh + L.ph) * self.outw + L.pw = k
    /\ 0 <= L.n /\ L.n < NumRois
CellOf(k) ==
    LET L == forward_cpu_locals(self, bottom_rois, bottom_data.shape[2], k)
    IN  <<L.n, L.c, L.ph, L.pw>>

\* C15: for every flat index the chained divisions of forward_cpu, those of
\* backward_cpu and the integer divisions of the kernels give the row-major
\* decomposition (pw fastest, then ph, c, n), with 0 <= n < num_rois; the
\* mapping is one-to-one from the flat indices onto the output cells.
C15_IndexMapper ==
    /\ pc \in {"fwd_iy", "fwd_ix"} => IndexOk(FL, i) /\ IndexOk(GFL, i)
    /\ pc \in {"bwd_iy", "bwd_ix"} => IndexOk(BL, i) /\ IndexOk(GBL, i)
    /\ (pc = "fwd_i" /\ i = 0) =>
           LET N == Size(top_data.shape)
           IN  /\ \A k \in 0..(N - 1) :
                      IndexOk(forward_cpu_locals(self, bottom_rois, bottom_data.shape[2], k), k)
               /\ \A j, k \in 0..(N - 1) : CellOf(j) = CellOf(k) => j = k
               /\ {CellOf(k) : k \in 0..(N - 1)} = Indices(top_data.shape)

\* forward is at a cell of the second ROI and second channel, in the second
\* row of a 2 x 2 output
C15_Witness ==
    /\ pc = "fwd_ix" /\ NumRois = 2
    /\ FL.n = 1 /\ FL.c = 1 /\ FL.ph = 1 /\ FL.pw = 0 /\ self.outw = 2 /\ self.outh = 2

\* the neighbour indices of an interpolation are inside the plane, low <= high,
\* at most 1 apart
IndicesInPlane(s) ==
    /\ 0 <= s.y_low /\ s.y_low <= s.y_high /\ s.y_high <= height - 1
    /\ 0 <= s.x_low /\ s.x_low <= s.x_high /\ s.x_high <= width - 1
    /\ s.y_high - s.y_low \in {0, 1} /\ s.x_high - s.x_low \in {0, 1}

\* C16: at every sample point that is not skipped the clamped neighbour indices
\* are inside the plane, low <= high and at most 1 apart; the four cells forward
\* reads are cells of the feature map, the four cells backward writes are cells
\* of the Gradient Map, and the guard before the accumulation is true.
C16_IndicesInPlane ==
    /\ (AtFwdSample /\ ~forward_cpu_outside(y, FX, height, width)) =>
           LET s == forward_cpu_interp(y, FX, height, width)
           IN  /\ height >= 1 /\ width >= 1
               /\ IndicesInPlane(s)
               /\ {<<FL.roi_batch_ind, FL.c, yy, xx>> :
                       yy \in {s.y_low, s.y_high}, xx \in {s.x_low, s.x_high}}
                      \subseteq DOMAIN bottom_data.data
    /\ (AtBwdSample /\ ~backward_cpu_outside(y, BX, height, width)) =>
           LET s == backward_cpu_interp(y, BX, height, width)
           IN  /\ IndicesInPlane(s)
               /\ s.x_low >= 0 /\ s.x_high >= 0 /\ s.y_low >= 0 /\ s.y_high >= 0
               /\ {<<BL.roi_batch_ind, BL.c, yy, xx>> :
                       yy \in {s.y_low, s.y_high}, xx \in {s.x_low, s.x_high}}
                      \subseteq DOMAIN bottom_diff.data

\* backward is at a sample with y below 0 and x beyond the last column's index
C16_Witness ==
    /\ AtBwdSample /\ ~backward_cpu_outside(y, BX, height, width)
    /\ RLt(y, Zero) /\ RLt(R(width - 1), BX) /\ width >= 2

\* y as the iy iteration computed it, before any clamp
RawY == forward_cpu_y(FL, iy)

\* C17: at every sample point that is not skipped, a coordinate in [-1, 0] is
\* taken as 0; when the low index reaches the last row (column) low and high
\* are both that index and the coordinate is pinned to it, so the fractional
\* part is 0; the four weights are in [0, 1] and sum to 1; the y carried over
\* from an earlier ix iteration gives the same indices and weights as the y the
\* iy iteration computed, and clamping once more changes nothing.
C17_Clamping ==
    (AtFwdSample /\ ~forward_cpu_outside(y, FX, height, width)) =>
        LET s == forward_cpu_interp(y, FX, height, width)
        IN  /\ RLe(y, Zero) => s.y = Zero /\ s.y_low = 0
            /\ RLe(FX, Zero) => s.x_low = 0
            /\ RLe(R(height - 1), y) =>
                   /\ s.y_low = height - 1 /\ s.y_high = height - 1
                   /\ s.y = R(height - 1) /\ s.w3 = Zero /\ s.w4 = Zero
            /\ RLe(R(width - 1), FX) =>
                   /\ s.x_low = width - 1 /\ s.x_high = width - 1
                   /\ s.w2 = Zero /\ s.w4 = Zero
            /\ \A w \in {s.w1, s.w2, s.w3, s.w4} : RLe(Zero, w) /\ RLe(w, One)
            /\ RAdd(RAdd(s.w1, s.w2), RAdd(s.w3, s.w4)) = One
            /\ ~forward_cpu_outside(RawY, FX, height, width)
            /\ forward_cpu_interp(RawY, FX, height, width) = s
            /\ forward_cpu_interp(s.y, FX, height, width) = s

\* forward is at a second sample of a grid row whose y was clamped at the
\* first one
C17_Witness ==
    /\ AtFwdSample /\ ix >= 1 /\ y # RawY
    /\ ~forward_cpu_outside(y, FX, height, width)

SumAll(a) == SumOver(a.data, Indices(a.shape))
\* the output gradient of the cell of flat index k
TopDiffOf(k) ==
    LET L == backward_cpu_locals(self, bottom_rois, self._bottom_data_shape[2], k)
    IN  top_diff.data[<<L.n, L.c, L.ph, L.pw>>]
\* the Gradient Map cells that are a corner of some sample point of some
\* output cell
Touched ==
    UNION {LET L == backward_cpu_locals(self, bottom_rois, self._bottom_data_shape[2], k)
           IN  UNION {LET s == backward_cpu_interp(backward_cpu_y(L, p[1]),
                                                   backward_cpu_x(L, p[2]), height, width)
                      IN  IF backward_cpu_outside(backward_cpu_y(L, p[1]),
                                                  backward_cpu_x(L, p[2]), height, width)
                          THEN {}
                          ELSE {<<L.roi_batch_ind, L.c, yy, xx>> :
                                   yy \in {s.y_low, s.y_high}, xx \in {s.x_low, s.x_high}} :
                      p \in (0..(L.roi_bin_grid_h - 1)) \X (0..(L.roi_bin_grid_w - 1))} :
           k \in 0..(Size(top_diff.shape) - 1)}

\* C18: in backward every sample point that is not skipped adds exactly
\* top_diff / (grid_h * grid_w) of its output cell to the Gradient Map, so once
\* the first i cells are done the Gradient Map sums to the sum of their output
\* gradients, and at the return to the sum of all output gradients; cells that
\* are a corner of no sample point are 0 throughout.
C18_MassConserved ==
    /\ (AtBwdSample /\ ~backward_cpu_outside(y, BX, height, width)) =>
           LET n == backward_cpu_sample_step(top_diff, BL, [bloop EXCEPT !.pc = "ix"])
           IN  SumAll(n.bottom_diff) = RAdd(SumAll(bottom_diff), RDiv(TopDiffOf(i), BL.count))
    /\ pc = "bwd_i" =>
           SumAll(bottom_diff) = SumOver([k \in 0..(i - 1) |-> TopDiffOf(k)], 0..(i - 1))
    /\ pc = "bwd_done" => SumAll(bottom_diff) = SumAll(top_diff)
    /\ pc \in BwdPcs \cup {"bwd_done"} =>
           \A h \in Indices(bottom_diff.shape) \ Touched : bottom_diff.data[h] = Zero

\* backward over two ROIs has returned, with output gradients that do not sum
\* to 0, a Gradient Map cell that no sample point touches, and an output cell
\* of non-zero gradient that has several sample points
C18_Witness ==
    /\ pc = "bwd_done" /\ NumRois = 2
    /\ SumAll(top_diff) # Zero
    /\ Indices(bottom_diff.shape) \ Touched # {}
    /\ \E k \in 0..(Size(top_diff.shape) - 1) :
           /\ RLt(One, backward_cpu_locals(self, bottom_rois, self._bottom_data_shape[2], k).count)
           /\ TopDiffOf(k) # Zero

\* (s, e, t) of the SubDataset over the current base
SubIndices == slice_indices(sub_dataset._index, base.len)
\* the elements of range(s, e, t), from its definition
RangeOf(S) ==
    {v \in (-1)..base.len :
        /\ \E k \in 0..base.len : v = S.start + k * S.step
        /\ S.step > 0 => v < S.stop
        /\ S.step < 0 => v > S.stop}
\* the elements of range(s, e, t) that come before v
Before(S, v) == {u \in RangeOf(S) : IF S.step > 0 THEN u < v ELSE u > v}

\* C19: for a SubDataset of a base of length L with (s, e, t) =
\* slice(start, stop, step).indices(L): its length is the number of elements of
\* range(s, e, t); get_example_by_keys(i, keys) with 0 <= i < len asks the base
\* for s + i*t with the same keys, which is the i-th element of the range and
\* lies in [0, L); the SubDataset's keys are the base's.
C19_SubIndexMapping ==
    /\ sub_dataset # NoSub => sub_dataset.keys = base.keys
    /\ (asked.op = "__len__" /\ asked.raises = "") =>
           asked.value = Cardinality(RangeOf(SubIndices))
    /\ (/\ asked.op \in {"get_example_by_keys", "get_example"}
        /\ asked.raises = ""
        /\ 0 <= asked.i
        /\ asked.i < Cardinality(RangeOf(SubIndices))) =>
           /\ asked.value = SubIndices.start + asked.i * SubIndices.step
           /\ asked.value \in RangeOf(SubIndices)
           /\ Cardinality(Before(SubIndices, asked.value)) = asked.i
           /\ asked.value \in 0..(base.len - 1)
           /\ asked.op = "get_example" => asked.keys = base.keys

\* the second example of a SubDataset that runs backwards from a start counted
\* from the end, in steps of two, has been asked for
C19_Witness ==
    /\ asked.op = "get_example_by_keys" /\ asked.raises = ""
    /\ base.len = MaxLen
    /\ sub_dataset._index[1] # None /\ sub_dataset._index[1].v[1] < 0
    /\ SubIndices.step < -1
    /\ asked.i = 1 /\ Cardinality(RangeOf(SubIndices)) = 2
    /\ asked.keys # base.keys
====
